---- MODULE Spec2Model ----
(***************************************************************************)
(* Grim: a tree-walking interpreter.  This module models the execution     *)
(* engine of src/interpreter: the dynamic values (TypeVal), the scope      *)
(* chain (Scope), the expression evaluator (evaluate_expression and the    *)
(* per-operator matrices) and the statement executor (evaluate_ast).       *)
(*                                                                         *)
(* Scopes live in an arena, a sequence of Scope records; a scope is named  *)
(* by its index and `parent` holds the index of the enclosing scope (0 for *)
(* None).  Rc<RefCell<Scope>> values are created and dropped in stack      *)
(* order, so a new scope is appended to the arena and a dropped one is     *)
(* removed from its end.                                                   *)
(*                                                                         *)
(* A Result<_, String> is a record with tag "Ok" or "Err"; a Rust panic    *)
(* (unwrap on Err, integer division by zero) is the tag "Panic", which     *)
(* unwinds through every caller.  An error String is modelled by the list  *)
(* of its lines (outermost wrapper first) and the operand values it shows. *)
(***************************************************************************)
EXTENDS Integers, Sequences, FiniteSets, TLC

VARIABLES
    scopes,     \* the arena of live Scope records; scopes[1] is main_scope
    stdout,     \* the values written by println!, oldest first
    stdin,      \* the lines standard input still holds, next first
    status,     \* "running", "failed" (Err at top level), "aborted" (panic), "finished"
    stmt,       \* the statement executed last (a Statement record, or NoStatement)
    result,     \* the Result of the statement executed last
    steps,      \* number of statements the top level has executed
    opl,        \* operator-matrix harness: left operand value
    opr,        \* operator-matrix harness: right operand value
    opres,      \* operator-matrix harness: operator -> Result, once applied
    src,        \* front end: the characters of the source text
    tokens,     \* front end: the outcome of tokenize(src), once it has run
    program     \* front end: the outcome of parse(tokens), once it has run

vars == <<scopes, stdout, stdin, status, stmt, result, steps, opl, opr, opres,
          src, tokens, program>>

-----------------------------------------------------------------------------
(* TypeVal *)

IntV(x) == [t |-> "Int", i |-> x]
BooleanV(x) == [t |-> "Boolean", b |-> x]
StrV(x) == [t |-> "Str", s |-> x]

TypeValDefault == IntV(0)

Abs(x) == IF x < 0 THEN -x ELSE x

Sign(x) == IF x < 0 THEN -1 ELSE IF x > 0 THEN 1 ELSE 0

\* i64 `/`: truncates toward zero (y # 0)
TruncDiv(x, y) == Sign(x) * Sign(y) * (Abs(x) \div Abs(y))

\* i64 `%`: the remainder of the truncating division, sign of the dividend (y # 0)
TruncRem(x, y) == x - y * TruncDiv(x, y)

Min(a, b) == IF a < b THEN a ELSE b

Max(a, b) == IF a > b THEN a ELSE b

(* Natural numbers of any size, for the digits of an f64: the sequence of  *)
(* the digits in base 2^15, least significant first, without leading zero  *)
(* digits (<<>> is 0).                                                     *)

PowersOf2 ==
    <<
      1, 2, 4, 8, 16, 32, 64, 128, 256, 512, 1024, 2048, 4096, 8192, 16384,
      32768, 65536, 131072, 262144, 524288, 1048576, 2097152, 4194304,
      8388608, 16777216, 33554432, 67108864, 134217728, 268435456,
      536870912, 1073741824
    >>

\* 2^k, 0 <= k <= 30
Pow2(k) == PowersOf2[k + 1]

Base == Pow2(15)

\* the number of binary digits of n, 0 <= n < 2^31
BitLen(n) == Cardinality({k \in 0..30 : Pow2(k) <= n})

\* digit i of a, zero outside of it
Digit(a, i) == IF i >= 1 /\ i <= Len(a) THEN a[i] ELSE 0

\* a without its leading zero digits
BigNorm(a) ==
    SubSeq(a, 1, CHOOSE i \in 0..Len(a) :
                    /\ i = 0 \/ a[i] # 0
                    /\ \A j \in (i + 1)..Len(a) : a[j] = 0)

\* the natural number n < 2^31
BigOf(n) == BigNorm(<<n % Base, (n \div Base) % Base, n \div (Base * Base)>>)

\* the addition of a and b carries into digit i
CarryInto(a, b, i) ==
    \E j \in 1..(i - 1) :
        /\ Digit(a, j) + Digit(b, j) >= Base
        /\ \A l \in (j + 1)..(i - 1) : Digit(a, l) + Digit(b, l) = Base - 1

BigAdd(a, b) ==
    BigNorm([i \in 1..(Max(Len(a), Len(b)) + 1) |->
                (Digit(a, i) + Digit(b, i) + (IF CarryInto(a, b, i) THEN 1 ELSE 0)) % Base])

\* the subtraction of b from a borrows from digit i
BorrowFrom(a, b, i) ==
    \E j \in 1..(i - 1) :
        /\ Digit(a, j) < Digit(b, j)
        /\ \A l \in (j + 1)..(i - 1) : Digit(a, l) = Digit(b, l)

\* a - b, for a >= b
BigSub(a, b) ==
    BigNorm([i \in 1..Len(a) |->
                (Base + Digit(a, i) - Digit(b, i) - (IF BorrowFrom(a, b, i) THEN 1 ELSE 0))
                    % Base])

BigLess(a, b) == BorrowFrom(a, b, Max(Len(a), Len(b)) + 1)

\* |a - b|
BigDistance(a, b) ==
    BigSub(IF BigLess(a, b) THEN b ELSE a, IF BigLess(a, b) THEN a ELSE b)

\* a * k, for 0 <= k < Base: the low halves of the digit products plus the
\* high halves one digit up
BigMulSmall(a, k) ==
    BigAdd([i \in 1..Len(a) |-> (a[i] * k) % Base],
           <<0>> \o [i \in 1..Len(a) |-> (a[i] * k) \div Base])

\* a times the digits lo..hi of b in their places, by halves
RECURSIVE BigMulRange(_, _, _, _)
BigMulRange(a, b, lo, hi) ==
    IF lo = hi THEN BigNorm([i \in 1..(lo - 1) |-> 0] \o BigMulSmall(a, b[lo]))
    ELSE BigAdd(BigMulRange(a, b, lo, (lo + hi) \div 2),
                BigMulRange(a, b, (lo + hi) \div 2 + 1, hi))

BigMul(a, b) == IF a = <<>> \/ b = <<>> THEN <<>> ELSE BigMulRange(a, b, 1, Len(b))

\* a * 2^n
BigShl(a, n) ==
    BigNorm([i \in 1..(Len(a) + n \div 15 + 1) |->
                ((Digit(a, i - n \div 15) * Pow2(n % 15)) % Base)
                    + ((Digit(a, i - n \div 15 - 1) * Pow2(n % 15)) \div Base)])

\* a div 2^n
BigShr(a, n) ==
    BigNorm([i \in 1..Max(Len(a) - n \div 15, 0) |->
                (Digit(a, i + n \div 15) \div Pow2(n % 15))
                    + (Digit(a, i + n \div 15 + 1) % Pow2(n % 15)) * Pow2(15 - (n % 15))])

\* a mod 2^n
BigLow(a, n) ==
    BigNorm([i \in 1..Min(Len(a), n \div 15 + 1) |->
                IF i <= n \div 15 THEN a[i] ELSE a[i] % Pow2(n % 15)])

\* the number of binary digits of a
BigBitLen(a) == IF a = <<>> THEN 0 ELSE 15 * (Len(a) - 1) + BitLen(a[Len(a)])

\* the digit r div b, for r < b * Base and the leading digit of b at least
\* Base / 2: it is e, e - 1 or e - 2 when e is the two leading digits of r
\* divided by the leading digit of b
Corrected(r, b, e) ==
    e - Cardinality({j \in 0..Min(1, e) : BigLess(r, BigMulSmall(b, e - j))})

QuotientDigit(r, b) ==
    Corrected(r, b, Min((Digit(r, Len(b) + 1) * Base + Digit(r, Len(b))) \div b[Len(b)],
                        Base - 1))

\* the remainder r has taken a digit of the dividend and gives the digit d
DivDigit(r, b, d) == <<BigSub(r, BigMulSmall(b, d)), <<d>>>>

\* the two halves of a long division: the upper digits came first
DivJoin(upper, lower) == <<lower[1], lower[2] \o upper[2]>>

RECURSIVE BigDivRange(_, _, _, _, _)

DivLower(a, b, lo, mid, upper) ==
    DivJoin(upper, BigDivRange(a, b, lo, mid, upper[1]))

\* the long division of a by b over the digits hi down to lo of a, by
\* halves, r being the remainder of the digits above them: <<the remainder,
\* the digits of the quotient>>; nothing is left to divide once the
\* remainder and the digits are 0
BigDivRange(a, b, lo, hi, r) ==
    IF lo > hi THEN <<r, <<>>>>
    ELSE IF r = <<>> /\ \A i \in lo..hi : a[i] = 0
    THEN <<r, [i \in 1..(hi - lo + 1) |-> 0]>>
    ELSE IF lo = hi
    THEN DivDigit(BigNorm(<<a[lo]>> \o r), b, QuotientDigit(BigNorm(<<a[lo]>> \o r), b))
    ELSE DivLower(a, b, lo, (lo + hi) \div 2,
                  BigDivRange(a, b, (lo + hi) \div 2 + 1, hi, r))

DivResult(rq) == <<rq[1], BigNorm(rq[2])>>

\* <<(a mod b) * 2^n, a div b>>, for b > 0 and n the number of binary digits
\* that the leading digit of b lacks
BigDivScaled(a, b, n) ==
    IF BigLess(a, b) THEN <<BigShl(a, n), <<>>>>
    ELSE DivResult(BigDivRange(BigShl(a, n), BigShl(b, n), 1, Len(BigShl(a, n)), <<>>))

\* <<r, a div b>> for b > 0, r being 0 exactly when b divides a
BigDivMod(a, b) == BigDivScaled(a, b, 15 - BitLen(b[Len(b)]))

(* f64, the payload of TypeVal::Float.  A finite value is                  *)
(* sign * mant * 2^exp, mant a natural number of 53 binary digits, or of   *)
(* fewer with exp = -1074 (a subnormal; mant 0 is the zero of that sign);  *)
(* the largest exp is 971.  FloatV(n, d) is the value n/d for d a power of *)
(* two, FloatV(0, -1) is -0.0, FloatV(1, 0) and FloatV(-1, 0) are the      *)
(* infinities and FloatV(0, 0) is NaN.                                     *)

Float(k, s, m, e) == [t |-> "Float", kind |-> k, sign |-> s, mant |-> m, exp |-> e]

NaN == Float("nan", 1, <<>>, 0)
Infinity(s) == Float("inf", s, <<>>, 0)
Zero(s) == Float("finite", s, <<>>, -1074)

IsNaN(x) == x.kind = "nan"
IsInf(x) == x.kind = "inf"
IsZero(x) == x.kind = "finite" /\ x.mant = <<>>

\* the f64 s * m * 2^p, m of at most 53 binary digits or 2^53
Packed(s, m, p) ==
    IF m = <<>> THEN Zero(s)
    ELSE IF BigBitLen(m) + p > 1024 THEN Infinity(s)
    ELSE IF BigBitLen(m) > 53 THEN Float("finite", s, <<0, 0, 0, 128>>, p + 1)
    ELSE Float("finite", s, m, p)

\* m / 2 to the nearest integer, ties to even; `below` says that the value
\* has more below the last digit of m
Nearest(m, below) ==
    BigShr(BigAdd(m, IF Digit(m, 1) % 2 = 1 /\ (below \/ Digit(m, 1) % 4 = 3)
                     THEN <<1>> ELSE <<>>), 1)

\* q * 2^e (and a little more when sticky) at the exponent p
RoundAt(s, q, sticky, e, p) ==
    Packed(s, IF p <= e THEN BigShl(q, e - p)
              ELSE Nearest(BigShr(q, p - e - 1), sticky \/ BigLow(q, p - e - 1) # <<>>), p)

\* the f64 nearest to s * (q + r) * 2^e, where 0 <= r < 1, and r > 0 exactly
\* when sticky, in which case q has at least 54 binary digits: an f64 has 53
\* binary digits, and none below 2^-1074
Round(s, q, sticky, e) == RoundAt(s, q, sticky, e, Max(BigBitLen(q) + e - 53, -1074))

\* the f64 nearest to s * rq[2] * 2^e, plus a little more unless rq[1] = 0
RoundQuotient(s, rq, e) == Round(s, rq[2], rq[1] # <<>>, e)

\* the f64 nearest to s * (n / d) * 2^e, for n > 0 and d > 0: the quotient
\* of n * 2^k by d, of 56 or 57 binary digits
RatioAt(s, n, d, e, k) ==
    RoundQuotient(s, BigDivMod(BigShl(n, Max(k, 0)), BigShl(d, Max(-k, 0))), e - k)

Ratio(s, n, d, e) ==
    IF n = <<>> THEN Zero(s)
    ELSE IF d = <<1>> THEN Round(s, n, FALSE, e)
    ELSE RatioAt(s, n, d, e, 56 - BigBitLen(n) + BigBitLen(d))

\* the f64 s * n * 2^e for 0 < n < 2^31 and e > -1000: n is exact
Exactly(s, n, e) ==
    Float("finite", s, BigShl(BigOf(n), 53 - BitLen(n)), e + BitLen(n) - 53)

FloatV(n, d) ==
    IF d = 0 THEN (IF n = 0 THEN NaN ELSE Infinity(Sign(n)))
    ELSE IF n = 0 THEN Zero(Sign(d))
    ELSE Exactly(Sign(n) * Sign(d), Abs(n), 1 - BitLen(Abs(d)))

\* `x as f64` for an i64 x
IntAsF64(x) == IF x = 0 THEN Zero(1) ELSE Exactly(Sign(x), Abs(x), 0)

FNeg(x) == IF IsNaN(x) THEN x ELSE Float(x.kind, -x.sign, x.mant, x.exp)

\* the digits of x in a sum with a value whose exponent is smaller by gap;
\* beyond 56 binary digits apart the smaller value only counts as something
\* that far below the larger one
Summand(x, gap) ==
    IF gap <= -57 THEN <<1>>
    ELSE BigShl(x.mant, IF gap >= 57 THEN 7 ELSE Max(gap, 0))

\* the sum of sx * a * 2^e and sy * b * 2^e, a > 0 and b > 0
Sum(sx, a, sy, b, e) ==
    IF sx # sy /\ a = b THEN Zero(1)
    ELSE Round(IF sx = sy \/ BigLess(b, a) THEN sx ELSE sy,
               IF sx = sy THEN BigAdd(a, b) ELSE BigDistance(a, b), FALSE, e)

FAdd(x, y) ==
    IF IsNaN(x) \/ IsNaN(y) THEN NaN
    ELSE IF IsInf(x) THEN (IF IsInf(y) /\ x.sign # y.sign THEN NaN ELSE x)
    ELSE IF IsInf(y) THEN y
    ELSE IF IsZero(x) THEN (IF IsZero(y) /\ x.sign # y.sign THEN Zero(1) ELSE y)
    ELSE IF IsZero(y) THEN x
    ELSE Sum(x.sign, Summand(x, x.exp - y.exp), y.sign, Summand(y, y.exp - x.exp),
             IF x.exp - y.exp >= 57 THEN x.exp - 7
             ELSE IF y.exp - x.exp >= 57 THEN y.exp - 7
             ELSE Min(x.exp, y.exp))

FSub(x, y) == FAdd(x, FNeg(y))

FMul(x, y) ==
    IF IsNaN(x) \/ IsNaN(y) THEN NaN
    ELSE IF (IsInf(x) /\ IsZero(y)) \/ (IsZero(x) /\ IsInf(y)) THEN NaN
    ELSE IF IsInf(x) \/ IsInf(y) THEN Infinity(x.sign * y.sign)
    ELSE IF IsZero(x) \/ IsZero(y) THEN Zero(x.sign * y.sign)
    ELSE Round(x.sign * y.sign, BigMul(x.mant, y.mant), FALSE, x.exp + y.exp)

FDiv(x, y) ==
    IF IsNaN(x) \/ IsNaN(y) THEN NaN
    ELSE IF (IsInf(x) /\ IsInf(y)) \/ (IsZero(x) /\ IsZero(y)) THEN NaN
    ELSE IF IsInf(x) \/ IsZero(y) THEN Infinity(x.sign * y.sign)
    ELSE IF IsZero(x) \/ IsInf(y) THEN Zero(x.sign * y.sign)
    ELSE Ratio(x.sign * y.sign, x.mant, y.mant, x.exp - y.exp)

\* the exponent of a value other than NaN, an infinity above all others
Rank(x) == IF IsInf(x) THEN 1024 ELSE x.exp

\* -1, 0 or 1 as x is less than, equal to or greater than y; neither is NaN
FCmp(x, y) ==
    IF IsZero(x) /\ IsZero(y) THEN 0
    ELSE IF x.sign # y.sign THEN x.sign
    ELSE IF Rank(x) # Rank(y) THEN x.sign * Sign(Rank(x) - Rank(y))
    ELSE IF BigLess(x.mant, y.mant) THEN -x.sign
    ELSE IF BigLess(y.mant, x.mant) THEN x.sign
    ELSE 0

FLess(x, y) == ~IsNaN(x) /\ ~IsNaN(y) /\ FCmp(x, y) < 0
FLessEq(x, y) == ~IsNaN(x) /\ ~IsNaN(y) /\ FCmp(x, y) <= 0
FEq(x, y) == ~IsNaN(x) /\ ~IsNaN(y) /\ FCmp(x, y) = 0

\* the integer x against sy * q, q being the integer part of |y|
Against(x, sy, q) ==
    IF q = <<>> THEN Sign(x)
    ELSE IF Sign(x) # sy THEN -sy
    ELSE IF BigLess(BigOf(Abs(x)), q) THEN -sy
    ELSE IF BigLess(q, BigOf(Abs(x))) THEN sy
    ELSE 0

\* -1, 0 or 1 as the i64 x is less than, equal to or greater than
\* `y as i64`: the cast drops the fraction, gives 0 for NaN and the nearest
\* i64 for a value out of range (which is beyond every x of the model)
CmpAsI64(x, y) ==
    IF IsNaN(y) THEN Sign(x)
    ELSE IF IsInf(y) \/ BigBitLen(y.mant) + y.exp > 32 THEN -y.sign
    ELSE Against(x, y.sign, BigShr(y.mant, -y.exp))

-----------------------------------------------------------------------------
(* Results and error messages *)

NoErr == [lines |-> <<>>, vals |-> <<>>]

Ok(v) == [tag |-> "Ok", val |-> v, err |-> NoErr]
Err(e) == [tag |-> "Err", val |-> TypeValDefault, err |-> e]
Panic(what) == [tag |-> "Panic", val |-> TypeValDefault,
                err |-> [lines |-> <<what>>, vals |-> <<>>]]

\* no Result of the program: the evaluation needs more nested calls than
\* MaxCalls and is followed no further
Beyond == [tag |-> "Beyond", val |-> TypeValDefault, err |-> NoErr]

\* the evaluation ends here: the process aborts, or it is followed no further
Stops(r) == r.tag \in {"Panic", "Beyond"}

\* format!("{prefix}\n{}\n", err)
Wrap(prefix, e) == [lines |-> <<prefix>> \o e.lines, vals |-> e.vals]

Msg(text) == [lines |-> <<text>>, vals |-> <<>>]

\* a message that shows a variable or function name
MsgAbout(text, name) == [lines |-> <<text>>, vals |-> <<StrV(name)>>]

error_reporting_generic(err_message) == Err(Msg(err_message))

error_reporting_unary_operator(err_message, val1) ==
    Err([lines |-> <<err_message>>, vals |-> <<val1>>])

error_reporting_binary_operator(err_message, val1, val2) ==
    Err([lines |-> <<err_message>>, vals |-> <<val1, val2>>])

-----------------------------------------------------------------------------
(* The operator matrices of bin_op_arithmetic_evaluator and                *)
(* bin_op_logic_evaluator, on two operand values.  i64 arithmetic stays    *)
(* far from the 64-bit limits with the operands used here.                 *)

Numeric(v) == v.t \in {"Int", "Float"}

\* the operand as f64: an Int is promoted, a Float is taken as it is
AsF64(v) == IF v.t = "Int" THEN IntAsF64(v.i) ELSE v

\* a sum that also concatenates two strings
AddValues_concatenating(l, r) ==
    IF l.t = "Int" /\ r.t = "Int" THEN Ok(IntV(l.i + r.i))
    ELSE IF Numeric(l) /\ Numeric(r) THEN Ok(FAdd(AsF64(l), AsF64(r)))
    ELSE IF l.t = "Str" /\ r.t = "Str" THEN Ok(StrV(l.s \o r.s))
    ELSE error_reporting_binary_operator("Sum between incompatible types", l, r)

AddValues(l, r) ==
    IF l.t = "Int" /\ r.t = "Int" THEN Ok(IntV(l.i + r.i))
    ELSE IF Numeric(l) /\ Numeric(r) THEN Ok(FAdd(AsF64(l), AsF64(r)))
    ELSE error_reporting_binary_operator("Sum between incompatible types", l, r)

SubValues(l, r) ==
    IF l.t = "Int" /\ r.t = "Int" THEN Ok(IntV(l.i - r.i))
    ELSE IF Numeric(l) /\ Numeric(r) THEN Ok(FSub(AsF64(l), AsF64(r)))
    ELSE error_reporting_binary_operator("Difference between incompatible types", l, r)

MulValues(l, r) ==
    IF l.t = "Int" /\ r.t = "Int" THEN Ok(IntV(l.i * r.i))
    ELSE IF Numeric(l) /\ Numeric(r) THEN Ok(FMul(AsF64(l), AsF64(r)))
    ELSE error_reporting_binary_operator("Product between incompatible types", l, r)

\* a division of integers that always truncates
DivIntInt_truncating(x, y) ==
    IF y = 0 THEN Panic("attempt to divide by zero")
    ELSE Ok(IntV(TruncDiv(x, y)))

\* Int / Int: `if x % y == 0 { Int(x / y) } else { Float(x as f64 / y as f64) }`;
\* `x % y` panics when y is 0
DivIntInt(x, y) ==
    IF y = 0 THEN Panic("attempt to calculate the remainder with a divisor of zero")
    ELSE IF TruncRem(x, y) = 0 THEN Ok(IntV(TruncDiv(x, y)))
    ELSE Ok(FDiv(IntAsF64(x), IntAsF64(y)))

DivValues(l, r) ==
    IF l.t = "Int" /\ r.t = "Int" THEN DivIntInt(l.i, r.i)
    ELSE IF Numeric(l) /\ Numeric(r) THEN Ok(FDiv(AsF64(l), AsF64(r)))
    ELSE error_reporting_binary_operator("Division between incompatible types", l, r)

\* Int % Int: `Int(x % y)`, which panics when y is 0
ModIntInt(x, y) ==
    IF y = 0 THEN Panic("attempt to calculate the remainder with a divisor of zero")
    ELSE Ok(IntV(TruncRem(x, y)))

\* s * (a mod b) * 2^e, from the remainder that BigDivMod leaves
Remainder(s, a, b, e) ==
    Round(s, BigDivMod(a, b)[1], FALSE, e - (15 - BitLen(b[Len(b)])))

\* the remainder of x / y with the sign of x
FRem(x, y) ==
    IF IsNaN(x) \/ IsNaN(y) \/ IsInf(x) \/ IsZero(y) THEN NaN
    ELSE IF IsInf(y) \/ IsZero(x) THEN x
    ELSE Remainder(x.sign, BigShl(x.mant, x.exp - Min(x.exp, y.exp)),
                   BigShl(y.mant, y.exp - Min(x.exp, y.exp)), Min(x.exp, y.exp))

\* a modulo that promotes as the other arithmetic operators do
ModValues_promoting(l, r) ==
    IF l.t = "Int" /\ r.t = "Int" THEN ModIntInt(l.i, r.i)
    ELSE IF Numeric(l) /\ Numeric(r)
    THEN Ok(FRem(AsF64(l), AsF64(r)))
    ELSE error_reporting_binary_operator("Modulo between incompatible types", l, r)

ModValues(l, r) ==
    IF l.t = "Int" /\ r.t = "Int" THEN ModIntInt(l.i, r.i)
    ELSE error_reporting_binary_operator("Modulo between incompatible types", l, r)

AndValues(l, r) ==
    IF l.t = "Boolean" /\ r.t = "Boolean" THEN Ok(BooleanV(l.b /\ r.b))
    ELSE error_reporting_binary_operator("Logical AND between incompatible types", l, r)

OrValues(l, r) ==
    IF l.t = "Boolean" /\ r.t = "Boolean" THEN Ok(BooleanV(l.b \/ r.b))
    ELSE error_reporting_binary_operator("Logical OR between incompatible types", l, r)

(* < > <= >=: Int/Int compares the integers, Float/Float the floats,       *)
(* Float/Int promotes the Int (`y as f64`), and Int/Float converts the     *)
(* Float to an integer (`y as i64`) and compares integers: CmpAsI64.       *)

LessValues(l, r) ==
    IF l.t = "Int" /\ r.t = "Int" THEN Ok(BooleanV(l.i < r.i))
    ELSE IF l.t = "Int" /\ r.t = "Float" THEN Ok(BooleanV(CmpAsI64(l.i, r) < 0))
    ELSE IF l.t = "Float" /\ r.t = "Int" THEN Ok(BooleanV(FLess(l, IntAsF64(r.i))))
    ELSE IF l.t = "Float" /\ r.t = "Float" THEN Ok(BooleanV(FLess(l, r)))
    ELSE error_reporting_binary_operator("Logical LESS between incompatible types", l, r)

GreaterValues(l, r) ==
    IF l.t = "Int" /\ r.t = "Int" THEN Ok(BooleanV(l.i > r.i))
    ELSE IF l.t = "Int" /\ r.t = "Float" THEN Ok(BooleanV(CmpAsI64(l.i, r) > 0))
    ELSE IF l.t = "Float" /\ r.t = "Int" THEN Ok(BooleanV(FLess(IntAsF64(r.i), l)))
    ELSE IF l.t = "Float" /\ r.t = "Float" THEN Ok(BooleanV(FLess(r, l)))
    ELSE error_reporting_binary_operator("Logical GREATER between incompatible types", l, r)

LessEqValues(l, r) ==
    IF l.t = "Int" /\ r.t = "Int" THEN Ok(BooleanV(l.i <= r.i))
    ELSE IF l.t = "Int" /\ r.t = "Float" THEN Ok(BooleanV(CmpAsI64(l.i, r) <= 0))
    ELSE IF l.t = "Float" /\ r.t = "Int" THEN Ok(BooleanV(FLessEq(l, IntAsF64(r.i))))
    ELSE IF l.t = "Float" /\ r.t = "Float" THEN Ok(BooleanV(FLessEq(l, r)))
    ELSE error_reporting_binary_operator("Logical LEQ between incompatible types", l, r)

GreaterEqValues(l, r) ==
    IF l.t = "Int" /\ r.t = "Int" THEN Ok(BooleanV(l.i >= r.i))
    ELSE IF l.t = "Int" /\ r.t = "Float" THEN Ok(BooleanV(CmpAsI64(l.i, r) >= 0))
    ELSE IF l.t = "Float" /\ r.t = "Int" THEN Ok(BooleanV(FLessEq(IntAsF64(r.i), l)))
    ELSE IF l.t = "Float" /\ r.t = "Float" THEN Ok(BooleanV(FLessEq(r, l)))
    ELSE error_reporting_binary_operator("Logical GEQ between incompatible types", l, r)

\* `x == y` on two payloads of one variant; a NaN equals nothing, itself
\* included, and -0.0 equals 0.0
PayloadEq(l, r) ==
    IF l.t = "Float" THEN FEq(l, r)
    ELSE l = r

\* an equality that promotes as the relational operators do
CompareEqValues_promoting(l, r) ==
    IF l.t = r.t THEN Ok(BooleanV(PayloadEq(l, r)))
    ELSE IF Numeric(l) /\ Numeric(r) THEN Ok(BooleanV(PayloadEq(AsF64(l), AsF64(r))))
    ELSE error_reporting_binary_operator("Logical EQ between incompatible types", l, r)

CompareEqValues(l, r) ==
    IF l.t = r.t THEN Ok(BooleanV(PayloadEq(l, r)))
    ELSE error_reporting_binary_operator("Logical EQ between incompatible types", l, r)

CompareNeqValues(l, r) ==
    IF l.t = r.t THEN Ok(BooleanV(~PayloadEq(l, r)))
    ELSE error_reporting_binary_operator("Logical NEQ between incompatible types", l, r)

ArithmeticOperators == {"Add", "Sub", "Mul", "Div", "Mod"}
LogicOperators ==
    {"And", "Or", "Less", "Greater", "LessEq", "GreaterEq", "CompareEq", "CompareNeq"}
BinaryOperator == ArithmeticOperators \cup LogicOperators

\* `match left { Ok(x) => match right { Ok(y) => ..., Err(err) => ... }, Err(err) => ... }`
\* of the arithmetic operators, on the two operand Results; the operator is
\* matched first, and the `_` arm looks at no operand
bin_op_arithmetic_evaluator(operator, left, right) ==
    IF operator \notin ArithmeticOperators
    THEN error_reporting_generic("Unrecognized binary arithmetic operation")
    ELSE IF left.tag = "Err"
    THEN Err(Wrap("Error during arithmetic expression evaluation", left.err))
    ELSE IF right.tag = "Err"
    THEN Err(Wrap("Error during binary arithmetic expression evaluation", right.err))
    ELSE CASE operator = "Add" -> AddValues(left.val, right.val)
           [] operator = "Sub" -> SubValues(left.val, right.val)
           [] operator = "Mul" -> MulValues(left.val, right.val)
           [] operator = "Div" -> DivValues(left.val, right.val)
           [] operator = "Mod" -> ModValues(left.val, right.val)

\* the same match of the logical and relational operators
bin_op_logic_evaluator(operator, left, right) ==
    IF operator \notin LogicOperators
    THEN error_reporting_generic("Unrecognized binary logic operation")
    ELSE IF left.tag = "Err"
    THEN Err(Wrap("Error during logic expression evaluation", left.err))
    ELSE IF right.tag = "Err"
    THEN Err(Wrap("Error during logic expression evaluation", right.err))
    ELSE CASE operator = "And" -> AndValues(left.val, right.val)
           [] operator = "Or" -> OrValues(left.val, right.val)
           [] operator = "Less" -> LessValues(left.val, right.val)
           [] operator = "Greater" -> GreaterValues(left.val, right.val)
           [] operator = "LessEq" -> LessEqValues(left.val, right.val)
           [] operator = "GreaterEq" -> GreaterEqValues(left.val, right.val)
           [] operator = "CompareEq" -> CompareEqValues(left.val, right.val)
           [] operator = "CompareNeq" -> CompareNeqValues(left.val, right.val)

\* bin_op_evaluator's dispatch and outer wrapper, on the two operand Results
BinOpResult(operator, left, right) ==
    IF operator \in ArithmeticOperators
    THEN LET r == bin_op_arithmetic_evaluator(operator, left, right)
         IN  IF r.tag = "Err"
             THEN Err(Wrap("Error during binary arithmetic expression evaluation", r.err))
             ELSE r
    ELSE LET r == bin_op_logic_evaluator(operator, left, right)
         IN  IF r.tag = "Err"
             THEN Err(Wrap("Error during binary logic expression evaluation", r.err))
             ELSE r

\* UnaryOperator::Minus and UnaryOperator::Not on the operand's Result
UnaryOpResult(operator, right) ==
    IF right.tag = "Err"
    THEN Err(Wrap("Error during logic expression evaluation", right.err))
    ELSE LET v == right.val
         IN  IF operator = "Minus"
             THEN CASE v.t = "Int" -> Ok(IntV(-v.i))
                    [] v.t = "Float" -> Ok(FNeg(v))
                    [] OTHER ->
                        error_reporting_unary_operator("Minus boolean is not supported", v)
             ELSE CASE v.t = "Boolean" -> Ok(BooleanV(~v.b))
                    [] v.t = "Int" ->
                        error_reporting_unary_operator("Not int is not supported", v)
                    [] v.t = "Float" ->
                        error_reporting_unary_operator("Not float is not supported", v)
                    [] OTHER ->
                        error_reporting_unary_operator("Not string is not supported", v)

-----------------------------------------------------------------------------
(* Scope *)

EmptyMap == [n \in {} |-> TypeValDefault]

\* Scope::default()
ScopeDefault ==
    [parent |-> 0,
     local_variables |-> EmptyMap,
     local_functions |-> EmptyMap,
     reachable_variables |-> {},
     reachable_functions |-> {},
     return_value |-> TypeValDefault]

\* HashMap::insert: binds the key, replacing the value of a key already present
MapInsert(map, key, value) == (key :> value) @@ map

\* insert_value without the check of reachable_variables
insert_value_shadowing(arena, sid, variable_name, value) ==
    IF variable_name \in DOMAIN arena[sid].local_variables
    THEN [scopes |-> arena,
          res |-> Err(MsgAbout("A variable with this name already exists and it is in scope",
                           variable_name))]
    ELSE [scopes |-> [arena EXCEPT
              ![sid].local_variables = MapInsert(@, variable_name, value),
              ![sid].reachable_variables = @ \cup {variable_name}],
          res |-> Ok(StrV("Correct insertion"))]

\* Scope::insert_value on scope sid of the arena: [res, scopes]
insert_value(arena, sid, variable_name, value) ==
    IF variable_name \in DOMAIN arena[sid].local_variables
    THEN [scopes |-> arena,
          res |-> Err(MsgAbout("A variable with this name already exists and it is in scope",
                           variable_name))]
    ELSE IF variable_name \in arena[sid].reachable_variables
    THEN [scopes |-> arena, res |-> Err(MsgAbout("You are overshadowing", variable_name))]
    ELSE [scopes |-> [arena EXCEPT
              ![sid].local_variables = MapInsert(@, variable_name, value),
              ![sid].reachable_variables = @ \cup {variable_name}],
          res |-> Ok(StrV("Correct insertion"))]

\* Scope::insert_function on scope sid of the arena: [res, scopes]
insert_function(arena, sid, function_name, arguments, body) ==
    IF function_name \in DOMAIN arena[sid].local_functions
    THEN [scopes |-> arena,
          res |-> Err(MsgAbout("A function with this name already exists and it is in scope",
                           function_name))]
    ELSE [scopes |-> [arena EXCEPT
              ![sid].local_functions =
                  MapInsert(@, function_name, [body |-> body, args |-> arguments]),
              ![sid].reachable_functions = @ \cup {function_name}],
          res |-> Ok(StrV("Correct insertion"))]

\* Scope::get_variable_value: the value bound in sid or, failing that, in its parents
RECURSIVE get_variable_value(_, _, _)
get_variable_value(arena, sid, variable_name) ==
    IF variable_name \in DOMAIN arena[sid].local_variables
    THEN Ok(arena[sid].local_variables[variable_name])
    ELSE IF arena[sid].parent # 0
    THEN get_variable_value(arena, arena[sid].parent, variable_name)
    ELSE Err(MsgAbout("Variable does not exist", variable_name))

\* Scope::get_function_info: [tag, err, args, body]
RECURSIVE get_function_info(_, _, _)
get_function_info(arena, sid, function_name) ==
    IF function_name \in DOMAIN arena[sid].local_functions
    THEN [tag |-> "Ok", err |-> NoErr,
          body |-> arena[sid].local_functions[function_name].body,
          args |-> arena[sid].local_functions[function_name].args]
    ELSE IF arena[sid].parent # 0
    THEN get_function_info(arena, arena[sid].parent, function_name)
    ELSE [tag |-> "Err", err |-> MsgAbout("Function does not exist", function_name),
          body |-> <<>>, args |-> <<>>]

\* update_value that looks no further than scope sid
update_value_local(arena, sid, variable_name, value) ==
    IF variable_name \in DOMAIN arena[sid].local_variables
    THEN [scopes |-> [arena EXCEPT
              ![sid].local_variables = MapInsert(@, variable_name, value)],
          res |-> Ok(StrV("Correct assignment"))]
    ELSE [scopes |-> arena, res |-> Err(MsgAbout("does not exist", variable_name))]

\* Scope::update_value: overwrites the binding of the first scope of the chain
\* that binds the name: [res, scopes]
RECURSIVE update_value(_, _, _, _)
update_value(arena, sid, variable_name, value) ==
    IF variable_name \in DOMAIN arena[sid].local_variables
    THEN [scopes |-> [arena EXCEPT
              ![sid].local_variables = MapInsert(@, variable_name, value)],
          res |-> Ok(StrV("Correct assignment"))]
    ELSE IF arena[sid].parent # 0
    THEN update_value(arena, arena[sid].parent, variable_name, value)
    ELSE [scopes |-> arena, res |-> Err(MsgAbout("does not exist", variable_name))]

\* set_return_value that leaves the scopes above sid alone
set_return_value_local(arena, sid, return_value) ==
    [arena EXCEPT ![sid].return_value = return_value]

\* Scope::set_return_value: sets the slot of sid and of every scope above it
RECURSIVE set_return_value(_, _, _)
set_return_value(arena, sid, return_value) ==
    LET here == [arena EXCEPT ![sid].return_value = return_value]
    IN  IF arena[sid].parent # 0
        THEN set_return_value(here, arena[sid].parent, return_value)
        ELSE here

\* a child scope that starts with no reachable names
NewChildScope_blank(arena, sid) == [ScopeDefault EXCEPT !.parent = sid]

\* the child scope evaluate_ast builds for an if/else branch or a while body:
\* Scope::default() with set_parent, set_reachable_variables, set_reachable_functions
NewChildScope(arena, sid) ==
    [ScopeDefault EXCEPT
        !.parent = sid,
        !.reachable_variables = arena[sid].reachable_variables,
        !.reachable_functions = arena[sid].reachable_functions]

\* dropping the scope created last
DropLast(arena) == SubSeq(arena, 1, Len(arena) - 1)

-----------------------------------------------------------------------------
(* The abstract syntax tree (parsing/ast.rs) *)

EInt(x) == [i |-> x, e |-> "Int"]
EFloat(n, d) == [e |-> "Float", num |-> n, den |-> d]
EBool(x) == [b |-> x, e |-> "Bool"]
EStr(x) == [s |-> x, e |-> "Str"]
EIdentifier(name) == [e |-> "Identifier", name |-> name]
EFunctionCall(name, arguments) ==
    [e |-> "FunctionCall", name |-> name, arguments |-> arguments]
EBinaryOperation(lhs, operator, rhs) ==
    [e |-> "BinaryOperation", operator |-> operator, lhs |-> lhs, rhs |-> rhs]
EUnaryOperation(operator, rhs) ==
    [e |-> "UnaryOperation", operator |-> operator, rhs |-> rhs]

VariableDeclarationStatement(name, value) ==
    [k |-> "VariableDeclarationStatement", name |-> name, value |-> value]
AssignmentStatement(name, value) ==
    [k |-> "AssignmentStatement", name |-> name, value |-> value]
IfStatement(cond, then_part) ==
    [k |-> "IfStatement", cond |-> cond, then_part |-> then_part]
IfElseStatement(cond, then_part, else_part) ==
    [k |-> "IfElseStatement", cond |-> cond, then_part |-> then_part,
     else_part |-> else_part]
WhileStatement(cond, body) ==
    [k |-> "WhileStatement", body |-> body, cond |-> cond]
FunctionDeclaration(name, parameters, body) ==
    [k |-> "FunctionDeclaration", name |-> name, body |-> body,
     parameters |-> parameters]
ReturnStatement(value) == [k |-> "ReturnStatement", value |-> value]
PrintStatement(content) == [k |-> "PrintStatement", content |-> content]
InputStatement(name) == [k |-> "InputStatement", name |-> name]

-----------------------------------------------------------------------------
(* The line an Input statement reads.  A line is a sequence of characters  *)
(* (one-character strings); `input.trim().parse::<T>()` is computed on the *)
(* characters, as the standard library's FromStr of i64, f64 and bool do.  *)

Digits == <<"0", "1", "2", "3", "4", "5", "6", "7", "8", "9">>
IsDigit(c) == \E i \in 1..10 : Digits[i] = c
DigitValue(c) == (CHOOSE i \in 1..10 : Digits[i] = c) - 1

\* A character is a string of one character, of U+0000 to U+00FF: the
\* characters that a string of this module can hold.

\* char::is_whitespace (White_Space): U+0009 to U+000D, the space, U+0085
\* and U+00A0
WhiteSpace == {"\t", "\n", "", "\f", "\r", " ", "", " "}

UpperCase ==
    <<"A", "B", "C", "D", "E", "F", "G", "H", "I", "J", "K", "L", "M",
      "N", "O", "P", "Q", "R", "S", "T", "U", "V", "W", "X", "Y", "Z">>
LowerCase ==
    <<"a", "b", "c", "d", "e", "f", "g", "h", "i", "j", "k", "l", "m",
      "n", "o", "p", "q", "r", "s", "t", "u", "v", "w", "x", "y", "z">>
\* u8::to_ascii_lowercase
ToLower(c) ==
    IF \E i \in 1..Len(UpperCase) : UpperCase[i] = c
    THEN LowerCase[CHOOSE i \in 1..Len(UpperCase) : UpperCase[i] = c]
    ELSE c

RECURSIVE TrimStart(_)
TrimStart(cs) ==
    IF cs # <<>> /\ Head(cs) \in WhiteSpace THEN TrimStart(Tail(cs)) ELSE cs

RECURSIVE TrimEnd(_)
TrimEnd(cs) ==
    IF cs # <<>> /\ cs[Len(cs)] \in WhiteSpace
    THEN TrimEnd(SubSeq(cs, 1, Len(cs) - 1))
    ELSE cs

\* str::trim
Trim(cs) == TrimEnd(TrimStart(cs))

\* the String the characters spell
RECURSIVE StringOf(_)
StringOf(cs) == IF cs = <<>> THEN "" ELSE Head(cs) \o StringOf(Tail(cs))

AllDigits(cs) == \A i \in 1..Len(cs) : IsDigit(cs[i])

\* the number a run of decimal digits denotes
RECURSIVE DigitsValue(_)
DigitsValue(cs) ==
    IF cs = <<>> THEN 0
    ELSE 10 * DigitsValue(SubSeq(cs, 1, Len(cs) - 1)) + DigitValue(cs[Len(cs)])

BigSquare(a) == BigMul(a, a)

\* 10^n, by halves
RECURSIVE BigPow10(_)
BigPow10(n) ==
    IF n = 0 THEN <<1>>
    ELSE IF n % 2 = 0 THEN BigSquare(BigPow10(n \div 2))
    ELSE BigMulSmall(BigSquare(BigPow10(n \div 2)), 10)

\* high * 10^n + low
Shifted(high, n, low) ==
    IF high = <<>> THEN low ELSE BigAdd(BigMul(high, BigPow10(n)), low)

\* the number a run of decimal digits denotes, of any size, by halves
RECURSIVE BigDigitsValue(_)
BigDigitsValue(cs) ==
    IF cs = <<>> THEN <<>>
    ELSE IF Len(cs) = 1 THEN BigOf(DigitValue(cs[1]))
    ELSE Shifted(BigDigitsValue(SubSeq(cs, 1, Len(cs) \div 2)),
                 Len(cs) - Len(cs) \div 2,
                 BigDigitsValue(SubSeq(cs, Len(cs) \div 2 + 1, Len(cs))))

\* the f64 nearest to digits * 10^up / 10^down
Decimal(digits, up, down) ==
    IF digits = <<>> THEN Zero(1)
    ELSE Ratio(1, BigMul(digits, BigPow10(up)), BigPow10(down), 0)

\* the position of the first character of cs that is in set, or 0
FirstOf(cs, set) ==
    IF \E i \in 1..Len(cs) : cs[i] \in set
    THEN CHOOSE i \in 1..Len(cs) : cs[i] \in set /\ \A j \in 1..(i - 1) : cs[j] \notin set
    ELSE 0

HasSign(cs) == cs # <<>> /\ Head(cs) \in {"+", "-"}
Unsigned(cs) == IF HasSign(cs) THEN Tail(cs) ELSE cs
SignOf(cs) == IF cs # <<>> /\ Head(cs) = "-" THEN -1 ELSE 1

NoParse == [val |-> TypeValDefault, ok |-> FALSE]
Parsed(v) == [val |-> v, ok |-> TRUE]

\* str::parse::<i64>: an optional sign and at least one digit (the lines of
\* the model are too short to overflow an i64)
ParseI64(cs) ==
    IF Unsigned(cs) # <<>> /\ AllDigits(Unsigned(cs))
    THEN Parsed(IntV(SignOf(cs) * DigitsValue(Unsigned(cs))))
    ELSE NoParse

\* the decimal number `digits [. digits] [e [sign] digits]` of f64's FromStr,
\* with at least one digit before the exponent
ParseNumber(cs) ==
    LET e == FirstOf(cs, {"e", "E"})
        mantissa == IF e = 0 THEN cs ELSE SubSeq(cs, 1, e - 1)
        exponent == IF e = 0 THEN <<>> ELSE SubSeq(cs, e + 1, Len(cs))
        dot == FirstOf(mantissa, {"."})
        whole == IF dot = 0 THEN mantissa ELSE SubSeq(mantissa, 1, dot - 1)
        frac == IF dot = 0 THEN <<>> ELSE SubSeq(mantissa, dot + 1, Len(mantissa))
        scale == IF e = 0 THEN 0 ELSE SignOf(exponent) * DigitsValue(Unsigned(exponent))
    IN  IF /\ AllDigits(whole) /\ AllDigits(frac) /\ whole \o frac # <<>>
           /\ e # 0 => (Unsigned(exponent) # <<>> /\ AllDigits(Unsigned(exponent)))
        THEN Parsed(Decimal(BigDigitsValue(whole \o frac), Max(scale, 0),
                            Len(frac) + Max(-scale, 0)))
        ELSE NoParse

\* str::parse::<f64>: an optional sign, then inf, infinity or nan in any case,
\* or a decimal number
ParseF64(cs) ==
    LET body == [i \in 1..Len(Unsigned(cs)) |-> ToLower(Unsigned(cs)[i])]
        number == ParseNumber(Unsigned(cs))
    IN  IF body \in {<<"i", "n", "f">>, <<"i", "n", "f", "i", "n", "i", "t", "y">>}
        THEN Parsed(Infinity(SignOf(cs)))
        ELSE IF body = <<"n", "a", "n">> THEN Parsed(NaN)
        ELSE IF number.ok
        THEN Parsed(IF SignOf(cs) < 0 THEN FNeg(number.val) ELSE number.val)
        ELSE NoParse

\* str::parse::<bool>: exactly true or false
ParseBool(cs) ==
    IF cs = <<"t", "r", "u", "e">> THEN Parsed(BooleanV(TRUE))
    ELSE IF cs = <<"f", "a", "l", "s", "e">> THEN Parsed(BooleanV(FALSE))
    ELSE NoParse

\* str::parse::<String>: never fails
ParseString(cs) == Parsed(StrV(StringOf(cs)))

\* the cascade of the Input statement: i64, then f64, then bool, then String;
\* the first parse that succeeds gives parsed_input
ParseInput(cs) ==
    IF ParseI64(cs).ok THEN ParseI64(cs).val
    ELSE IF ParseF64(cs).ok THEN ParseF64(cs).val
    ELSE IF ParseBool(cs).ok THEN ParseBool(cs).val
    ELSE ParseString(cs).val

\* "Error of type incoherence, "name" is a ..." for a target holding value v
TypeIncoherence(name, v) ==
    CASE v.t = "Int" -> MsgAbout("Error of type incoherence, is a integer", name)
      [] v.t = "Float" -> MsgAbout("Error of type incoherence, is a float", name)
      [] v.t = "Boolean" -> MsgAbout("Error of type incoherence, is a boolean", name)
      [] OTHER -> MsgAbout("Error of type incoherence, is a string", name)

\* `match scope.borrow().local_variables.get(name)` after the parse that
\* succeeded: the target must be a local variable of the parsed variant
InputTarget(local_variables, name, parsed_input) ==
    IF name \notin DOMAIN local_variables
    THEN Err(MsgAbout("Input variable does not exist", name))
    ELSE IF local_variables[name].t = parsed_input.t THEN Ok(parsed_input)
    ELSE Err(TypeIncoherence(name, local_variables[name]))

-----------------------------------------------------------------------------
(* evaluate_expression and evaluate_ast.  The machine m = [scopes, out]    *)
(* is threaded through: an expression yields [m, tag, val, err], a         *)
(* statement yields [m, tag, err] where tag "Break" is the `break` of a    *)
(* return statement.  Each definition below is one stretch of the source   *)
(* function, handed the Result of the call that precedes it.               *)

\* a Result, with the machine it leaves
With(m, res) == [m |-> m, tag |-> res.tag, val |-> res.val, err |-> res.err]

\* a statement's outcome
Done(m, tag, err) == [m |-> m, tag |-> tag, err |-> err]

\* the nested calls the evaluation follows: a call nested deeper is not
\* evaluated (the Result is Beyond), and no step is taken on such a Result
MaxCalls == 5

\* the calls in progress: the live scopes without a parent, but for main_scope
LiveCalls(arena) == Cardinality({i \in 1..Len(arena) : arena[i].parent = 0}) - 1

NoCondition(v) ==
    CASE v.t = "Int" -> Msg("Int cannot be used as if condition")
      [] v.t = "Float" -> Msg("Float cannot be used as if condition")
      [] OTHER -> Msg("Str cannot be used as if condition")

RECURSIVE evaluate_expression(_, _, _)
RECURSIVE BindArguments(_, _, _, _, _, _)
RECURSIVE evaluate_ast(_, _, _)
RECURSIVE EvaluateFrom(_, _, _, _)
RECURSIVE ExecuteStatement(_, _, _)
RECURSIVE WhileLoop(_, _, _, _, _)

\* bin_op_*_evaluator once both operands are evaluated
BinaryCombine(operator, left, right) ==
    IF Stops(right) THEN right
    ELSE With(right.m, BinOpResult(operator, left, right))

\* a right operand that is skipped when the left one decides && or ||
BinaryRight_lazy(sid, operator, rhs, left) ==
    IF Stops(left) THEN left
    ELSE IF /\ left.tag = "Ok"
            /\ left.val.t = "Boolean"
            /\ \/ (operator = "And" /\ ~left.val.b)
               \/ (operator = "Or" /\ left.val.b)
    THEN left
    ELSE BinaryCombine(operator, left, evaluate_expression(left.m, sid, rhs))

\* `let right = evaluate_expression(scope, &rhs);`: evaluated whatever left is
BinaryRight(sid, operator, rhs, left) ==
    IF Stops(left) THEN left
    ELSE BinaryCombine(operator, left, evaluate_expression(left.m, sid, rhs))

\* bin_op_evaluator: both operands are evaluated, left first, before the match
bin_op_evaluator(m, sid, lhs, operator, rhs) ==
    BinaryRight(sid, operator, rhs, evaluate_expression(m, sid, lhs))

\* Expression::UnaryOperation, on the operand's Result
UnaryOperation(operator, right) ==
    IF Stops(right) THEN right
    ELSE With(right.m, UnaryOpResult(operator, right))

\* Expression::Identifier, on the Result of get_variable_value
Identifier(m, var) ==
    IF var.tag = "Ok" THEN With(m, var)
    ELSE With(m, Err(Wrap("Error during identifier reading", var.err)))

\* the body of the argument loop for pair i, on the argument's Result a
BindArgument(sid, fun_args, arguments, i, fun_scope, a) ==
    CASE a.tag = "Ok" ->
            BindArguments(a.m, sid, fun_args, arguments, i + 1,
                [fun_scope EXCEPT
                    !.local_variables = MapInsert(@, fun_args[i], a.val),
                    !.reachable_variables = @ \cup {fun_args[i]}])
      [] a.tag = "Err" ->
            [m |-> a.m, tag |-> "Err", err |-> Msg("Error during function call"),
             fun_scope |-> fun_scope]
      [] OTHER ->
            [m |-> a.m, tag |-> a.tag, err |-> a.err, fun_scope |-> fun_scope]

\* the `for (f_args, args) in zip(fun_args, arguments)` loop, from pair i on:
\* each argument is evaluated in the caller's scope and inserted in fun_scope
BindArguments(m, sid, fun_args, arguments, i, fun_scope) ==
    IF i > Min(Len(fun_args), Len(arguments))
    THEN [m |-> m, tag |-> "Ok", err |-> NoErr, fun_scope |-> fun_scope]
    ELSE BindArgument(sid, fun_args, arguments, i, fun_scope,
                      evaluate_expression(m, sid, arguments[i]))

\* `evaluated_function.unwrap()` and the read of the frame's return_value;
\* fun_scope, at index fid, is dropped when the call returns
\* a call that yields the return slot of main_scope
FunctionResult_inherited(fid, evaluated_function) ==
    CASE evaluated_function.tag = "Ok" ->
            With([evaluated_function.m EXCEPT !.scopes = SubSeq(@, 1, fid - 1)],
                 Ok(evaluated_function.m.scopes[1].return_value))
      [] evaluated_function.tag = "Err" ->
            With([evaluated_function.m EXCEPT !.scopes = SubSeq(@, 1, fid - 1)],
                 Panic("called Result::unwrap on an Err value"))
      [] OTHER ->
            [m |-> [evaluated_function.m EXCEPT !.scopes = SubSeq(@, 1, fid - 1)],
             tag |-> evaluated_function.tag, val |-> TypeValDefault, err |-> evaluated_function.err]

\* a call that also leaves its result in the return slot of main_scope
FunctionResult_stored(fid, evaluated_function) ==
    CASE evaluated_function.tag = "Ok" ->
            With([evaluated_function.m EXCEPT
                    !.scopes = [SubSeq(@, 1, fid - 1) EXCEPT
                                    ![1].return_value = evaluated_function.m.scopes[fid].return_value]],
                 Ok(evaluated_function.m.scopes[fid].return_value))
      [] evaluated_function.tag = "Err" ->
            With([evaluated_function.m EXCEPT !.scopes = SubSeq(@, 1, fid - 1)],
                 Panic("called Result::unwrap on an Err value"))
      [] OTHER ->
            [m |-> [evaluated_function.m EXCEPT !.scopes = SubSeq(@, 1, fid - 1)],
             tag |-> evaluated_function.tag, val |-> TypeValDefault, err |-> evaluated_function.err]

FunctionResult(fid, evaluated_function) ==
    CASE evaluated_function.tag = "Ok" ->
            With([evaluated_function.m EXCEPT !.scopes = SubSeq(@, 1, fid - 1)],
                 Ok(evaluated_function.m.scopes[fid].return_value))
      [] evaluated_function.tag = "Err" ->
            With([evaluated_function.m EXCEPT !.scopes = SubSeq(@, 1, fid - 1)],
                 Panic("called Result::unwrap on an Err value"))
      [] OTHER ->
            [m |-> [evaluated_function.m EXCEPT !.scopes = SubSeq(@, 1, fid - 1)],
             tag |-> evaluated_function.tag, val |-> TypeValDefault, err |-> evaluated_function.err]

\* `evaluate_ast(&fun_body, &mut fun_scope)` once the arguments are bound
FunctionBody(fun_body, bound) ==
    CASE bound.tag = "Err" -> With(bound.m, Err(bound.err))
      [] Stops(bound) ->
            [m |-> bound.m, tag |-> bound.tag, val |-> TypeValDefault, err |-> bound.err]
      [] LiveCalls(bound.m.scopes) >= MaxCalls -> With(bound.m, Beyond)
      [] OTHER ->
            FunctionResult(Len(bound.m.scopes) + 1,
                evaluate_ast(fun_body,
                             [bound.m EXCEPT !.scopes = Append(@, bound.fun_scope)],
                             Len(bound.m.scopes) + 1))

\* a fun_scope whose parent is main_scope
FunctionScope_chained(name, fun_args, fun_body) ==
    [insert_function(<<ScopeDefault>>, 1, name, fun_args, fun_body).scopes[1]
        EXCEPT !.parent = 1]

\* fun_scope as the call creates it: Scope::default() holding the called function
FunctionScope(name, fun_args, fun_body) ==
    insert_function(<<ScopeDefault>>, 1, name, fun_args, fun_body).scopes[1]

\* Expression::FunctionCall, on the Result of get_function_info
FunctionCall(m, sid, name, arguments, info) ==
    IF info.tag = "Err"
    THEN With(m, Err(Wrap("Error during function evaluation", info.err)))
    ELSE FunctionBody(info.body,
            BindArguments(m, sid, info.args, arguments, 1,
                          FunctionScope(name, info.args, info.body)))

evaluate_expression(m, sid, expr) ==
    CASE expr.e = "Int" -> With(m, Ok(IntV(expr.i)))
      [] expr.e = "Float" -> With(m, Ok(FloatV(expr.num, expr.den)))
      [] expr.e = "Bool" -> With(m, Ok(BooleanV(expr.b)))
      [] expr.e = "Str" -> With(m, Ok(StrV(expr.s)))
      [] expr.e = "BinaryOperation" ->
            bin_op_evaluator(m, sid, expr.lhs, expr.operator, expr.rhs)
      [] expr.e = "UnaryOperation" ->
            UnaryOperation(expr.operator, evaluate_expression(m, sid, expr.rhs))
      [] expr.e = "Identifier" ->
            Identifier(m, get_variable_value(m.scopes, sid, expr.name))
      [] expr.e = "FunctionCall" ->
            FunctionCall(m, sid, expr.name, expr.arguments,
                         get_function_info(m.scopes, sid, expr.name))

\* the return of a branch's evaluate_ast; the child scope, at index cid, is dropped
BranchEnd(cid, r) ==
    CASE r.tag = "Ok" -> Done([r.m EXCEPT !.scopes = SubSeq(@, 1, cid - 1)], "Ok", NoErr)
      [] r.tag = "Err" ->
            Done([r.m EXCEPT !.scopes = SubSeq(@, 1, cid - 1)], "Err",
                 Wrap("Error during if-else evaluation", r.err))
      [] OTHER -> Done([r.m EXCEPT !.scopes = SubSeq(@, 1, cid - 1)], r.tag, r.err)

\* a branch that runs its statement list in the enclosing scope itself
Branch_inline(m, sid, part) ==
    BranchEnd(Len(m.scopes) + 1, evaluate_ast(part, m, sid))

\* the branch of an if or if/else: a new child scope and the statement list in it
Branch(m, sid, part) ==
    BranchEnd(Len(m.scopes) + 1,
              evaluate_ast(part, [m EXCEPT !.scopes = Append(@, NewChildScope(@, sid))],
                           Len(m.scopes) + 1))

\* a while statement that gives every iteration a new child scope
WhileBody_fresh(cond, body, sid, wid, r) ==
    CASE r.tag = "Ok" ->
            WhileLoop(cond, body,
                      [r.m EXCEPT !.scopes[wid] = NewChildScope(r.m.scopes, sid)], sid, wid)
      [] r.tag = "Err" -> Done(r.m, "Err", Wrap("Error during while evaluation", r.err))
      [] OTHER -> Done(r.m, r.tag, r.err)

\* a while statement that runs its body at most once
WhileBody_once(cond, body, sid, wid, r) ==
    CASE r.tag = "Ok" -> Done(r.m, "Ok", NoErr)
      [] r.tag = "Err" -> Done(r.m, "Err", Wrap("Error during while evaluation", r.err))
      [] OTHER -> Done(r.m, r.tag, r.err)

\* `Ok(Boolean(true)) => match evaluate_ast(body, &mut new_scope)`
WhileBody(cond, body, sid, wid, r) ==
    CASE r.tag = "Ok" -> WhileLoop(cond, body, r.m, sid, wid)
      [] r.tag = "Err" -> Done(r.m, "Err", Wrap("Error during while evaluation", r.err))
      [] OTHER -> Done(r.m, r.tag, r.err)

\* a loop that any condition value other than Boolean(true) ends
WhileCondition_lenient(cond, body, sid, wid, c) ==
    CASE Stops(c) -> Done(c.m, c.tag, c.err)
      [] c.tag = "Err" -> Done(c.m, "Err", Wrap("Error during while evaluation", c.err))
      [] c.val.t = "Boolean" /\ c.val.b ->
            WhileBody(cond, body, sid, wid, evaluate_ast(body, c.m, wid))
      [] OTHER -> Done(c.m, "Ok", NoErr)

\* the match on the condition's Result c inside the `loop`
WhileCondition(cond, body, sid, wid, c) ==
    CASE Stops(c) -> Done(c.m, c.tag, c.err)
      [] c.tag = "Err" -> Done(c.m, "Err", Wrap("Error during while evaluation", c.err))
      [] c.val.t # "Boolean" -> Done(c.m, "Err", NoCondition(c.val))
      [] c.val.b -> WhileBody(cond, body, sid, wid, evaluate_ast(body, c.m, wid))
      [] OTHER -> Done(c.m, "Ok", NoErr)

\* the `loop` of a while statement; wid is the child scope built before the loop
WhileLoop(cond, body, m, sid, wid) ==
    WhileCondition(cond, body, sid, wid, evaluate_expression(m, sid, cond))

\* the while statement: its child scope, at index wid, is dropped after the loop
WhileEnd(wid, r) == Done([r.m EXCEPT !.scopes = SubSeq(@, 1, wid - 1)], r.tag, r.err)

\* the expression a statement evaluates first
StatementExpression(s) ==
    CASE s.k \in {"VariableDeclarationStatement", "AssignmentStatement",
                  "ReturnStatement"} -> s.value
      [] s.k \in {"IfStatement", "IfElseStatement"} -> s.cond
      [] s.k = "PrintStatement" -> s.content

\* what each arm wraps the error of its expression in
StatementError(s, e) ==
    CASE s.k = "VariableDeclarationStatement" -> Wrap("Error during variable declaration", e)
      [] s.k = "AssignmentStatement" -> Wrap("Error during variable assignment", e)
      [] s.k = "IfStatement" -> Wrap("Error during if evaluation", e)
      [] s.k = "IfElseStatement" -> Wrap("Error during if-else evaluation", e)
      [] s.k = "ReturnStatement" -> Wrap("Error during return statement", e)
      [] s.k = "PrintStatement" -> e

\* `match scope.borrow_mut().insert_value(&name, &evaluated_expr)`
Declared(m, ins) ==
    IF ins.res.tag = "Ok"
    THEN Done([m EXCEPT !.scopes = ins.scopes], "Ok", NoErr)
    ELSE Done(m, "Err", Wrap("Error during variable declaration", ins.res.err))

\* `match scope.borrow_mut().update_value(&name, &evaluated_expr)`
Assigned(m, upd) ==
    IF upd.res.tag = "Ok"
    THEN Done([m EXCEPT !.scopes = upd.scopes], "Ok", NoErr)
    ELSE Done(m, "Err", Wrap("Error during variable assignment", upd.res.err))

\* `io::stdin().read_line(&mut input)`: the next line, or nothing at end of file
ReadLine(inp) == IF inp = <<>> THEN <<>> ELSE Head(inp)
AfterLine(inp) == IF inp = <<>> THEN <<>> ELSE Tail(inp)

\* InputStatement once the line is read (m holds the rest of the input), on
\* the Result of the target check
InputAssigned(m, sid, name, checked) ==
    IF checked.tag = "Err" THEN Done(m, "Err", checked.err)
    ELSE Assigned(m, update_value(m.scopes, sid, name, checked.val))

\* the InputStatement arm of evaluate_ast
Input(m, sid, name) ==
    InputAssigned([m EXCEPT !.inp = AfterLine(@)], sid, name,
                  InputTarget(m.scopes[sid].local_variables, name,
                              ParseInput(Trim(ReadLine(m.inp)))))

\* `match scope.borrow_mut().insert_function(name, parameters, body)`
FunctionDeclared(m, ins) ==
    IF ins.res.tag = "Ok"
    THEN Done([m EXCEPT !.scopes = ins.scopes], "Ok", NoErr)
    ELSE Done(m, "Err", Wrap("Error during function declaration", ins.res.err))

\* the arms of the match on the statement, on the Result v of its expression
StatementArm(s, sid, v) ==
    CASE Stops(v) -> Done(v.m, v.tag, v.err)
      [] v.tag = "Err" -> Done(v.m, "Err", StatementError(s, v.err))
      [] s.k = "VariableDeclarationStatement" ->
            Declared(v.m, insert_value(v.m.scopes, sid, s.name, v.val))
      [] s.k = "AssignmentStatement" ->
            Assigned(v.m, update_value(v.m.scopes, sid, s.name, v.val))
      [] s.k = "ReturnStatement" ->
            Done([v.m EXCEPT !.scopes = set_return_value(@, sid, v.val)], "Break", NoErr)
      [] s.k = "PrintStatement" -> Done([v.m EXCEPT !.out = Append(@, v.val)], "Ok", NoErr)
      [] v.val.t # "Boolean" -> Done(v.m, "Err", NoCondition(v.val))
      [] v.val.b -> Branch(v.m, sid, s.then_part)
      [] s.k = "IfElseStatement" -> Branch(v.m, sid, s.else_part)
      [] OTHER -> Done(v.m, "Ok", NoErr)

\* one iteration of evaluate_ast's `for stmt in tree`: the match on the statement
ExecuteStatement(s, m, sid) ==
    CASE s.k = "FunctionDeclaration" ->
            FunctionDeclared(m, insert_function(m.scopes, sid, s.name, s.parameters, s.body))
      [] s.k = "InputStatement" -> Input(m, sid, s.name)
      [] s.k = "WhileStatement" ->
            WhileEnd(Len(m.scopes) + 1,
                     WhileLoop(s.cond, s.body,
                               [m EXCEPT !.scopes = Append(@, NewChildScope(@, sid))],
                               sid, Len(m.scopes) + 1))
      [] OTHER -> StatementArm(s, sid, evaluate_expression(m, sid, StatementExpression(s)))

\* the end of one iteration: Ok goes on, `break` and errors leave the loop
EvaluateNext(tree, i, sid, r) ==
    CASE r.tag = "Ok" -> EvaluateFrom(tree, i + 1, r.m, sid)
      [] r.tag = "Break" -> Done(r.m, "Ok", NoErr)
      [] OTHER -> r

\* evaluate_ast's `for stmt in tree`, from statement i on
EvaluateFrom(tree, i, m, sid) ==
    IF i > Len(tree) THEN Done(m, "Ok", NoErr)
    ELSE EvaluateNext(tree, i, sid, ExecuteStatement(tree[i], m, sid))

evaluate_ast(tree, m, sid) == EvaluateFrom(tree, 1, m, sid)

-----------------------------------------------------------------------------
(* The run of a program.  boot_interpreter starts evaluate_ast on an empty *)
(* main_scope; the top-level statement list is not fixed in advance: every *)
(* step executes one more statement, chosen from a bounded set, in the     *)
(* innermost open block.  An `if` whose condition holds opens a block (its *)
(* child scope becomes the current scope) and the end of its statement     *)
(* list closes it, so the current scope is always the last of the arena.   *)

MaxSteps == 4       \* statements executed in one run
MaxDepth == 3       \* scopes open at once (main_scope and nested blocks)

Names == {"x", "y"}
FunctionNames == {"f", "g"}

NoStatement == [k |-> "None"]
EndOfBlock == [k |-> "EndOfBlock"]
NoOperand == [t |-> "None"]
NoResult == [tag |-> "None", err |-> NoErr]

current == Len(scopes)

machine == [scopes |-> scopes, inp |-> stdin, out |-> stdout]

\* boot_interpreter: main_scope is Scope::default()
InitRun ==
    /\ scopes = <<ScopeDefault>>
    /\ stdout = <<>>
    /\ status = "running"
    /\ stmt = NoStatement
    /\ result = NoResult
    /\ steps = 0

IdleOperators == opl = NoOperand /\ opr = NoOperand /\ opres = NoResult

\* the front end has no source text and has not run
NotRun == [tag |-> "None"]
IdleFrontEnd == src = <<>> /\ tokens = NotRun /\ program = NotRun

\* standard input holds no line: read_line reads nothing (end of file)
NoInput == stdin = <<>>

RECURSIVE Unwound(_, _)
\* the Err r of a statement of the branch whose scope is sid, as the enclosing
\* if statements return it: `Err(err) => return Err(format!(...))` in each of
\* them, the child scope of each branch being dropped
Unwound(sid, r) == IF sid = 1 THEN r ELSE Unwound(sid - 1, BranchEnd(sid, r))

\* the outcome r of statement s, as evaluate_ast's loop and its callers see it:
\* Ok goes on to the next statement, Err leaves every enclosing branch and
\* ends the run, as a panic does, and the break of a return ends the current
\* statement list
Outcome(s, r) ==
    /\ r.tag # "Beyond"
    /\ stmt' = s
    /\ result' = [tag |-> r.tag,
                  err |-> IF r.tag = "Err" THEN Unwound(current, r).err ELSE r.err]
    /\ steps' = steps + 1
    /\ stdout' = r.m.out
    /\ stdin' = r.m.inp
    /\ CASE r.tag = "Ok" -> scopes' = r.m.scopes /\ status' = status
         [] r.tag = "Err" -> scopes' = Unwound(current, r).m.scopes /\ status' = "failed"
         [] r.tag = "Panic" -> scopes' = r.m.scopes /\ status' = "aborted"
         [] r.tag = "Break" ->
                IF current = 1
                THEN scopes' = r.m.scopes /\ status' = "finished"
                ELSE scopes' = DropLast(r.m.scopes) /\ status' = status
    /\ UNCHANGED <<opl, opr, opres, src, tokens, program>>

\* the run is going on and may execute one more statement
Ready == status = "running" /\ steps < MaxSteps

\* one iteration of `for stmt in tree` in the current scope
Execute(s) == Outcome(s, ExecuteStatement(s, machine, current))

Declare(name, value) ==
    /\ Ready
    /\ Execute(VariableDeclarationStatement(name, value))

Assign(name, value) ==
    /\ Ready
    /\ Execute(AssignmentStatement(name, value))

DeclareFunction(name, parameters, body) ==
    /\ Ready
    /\ Execute(FunctionDeclaration(name, parameters, body))

Return(value) ==
    /\ Ready
    /\ Execute(ReturnStatement(value))

Write(content) ==
    /\ Ready
    /\ Execute(PrintStatement(content))

\* an if statement up to the start of its branch, on the condition's Result c:
\* when it is Boolean(true) the child scope of the branch is entered
IfEntered(s, c) ==
    CASE Stops(c) -> Outcome(s, Done(c.m, c.tag, c.err))
      [] c.tag = "Err" -> Outcome(s, Done(c.m, "Err", Wrap("Error during if evaluation", c.err)))
      [] c.val.t # "Boolean" -> Outcome(s, Done(c.m, "Err", NoCondition(c.val)))
      [] c.val.b ->
            Outcome(s, Done([c.m EXCEPT !.scopes = Append(@, NewChildScope(@, current))],
                            "Ok", NoErr))
      [] OTHER -> Outcome(s, Done(c.m, "Ok", NoErr))

IfEnter(cond) ==
    /\ Ready
    /\ current < MaxDepth
    /\ IfEntered(IfStatement(cond, <<>>), evaluate_expression(machine, current, cond))

\* the branch's statement list is exhausted: evaluate_ast returns Ok, the child
\* scope is dropped and the enclosing list goes on
BlockEnd ==
    /\ status = "running"
    /\ current > 1
    /\ scopes' = DropLast(scopes)
    /\ stmt' = EndOfBlock
    /\ result' = [tag |-> "Ok", err |-> NoErr]
    /\ UNCHANGED <<stdout, stdin, status, steps, opl, opr, opres, src, tokens, program>>

ValueExpressions == {EInt(1), EInt(2)} \cup {EIdentifier(n) : n \in Names}
Conditions == {EBool(TRUE), EBool(FALSE), EInt(1)}

\* fn name(a) { return a; }  and  fn name() { }
PlainFunctions == {[body |-> <<ReturnStatement(EIdentifier("a"))>>, parameters |-> <<"a">>],
                   [body |-> <<>>, parameters |-> <<>>]}

Init == InitRun /\ IdleOperators /\ NoInput /\ IdleFrontEnd

Next ==
    \/ \E n \in Names, e \in ValueExpressions : Declare(n, e)
    \/ \E n \in Names, e \in ValueExpressions : Assign(n, e)
    \/ \E f \in FunctionNames, d \in PlainFunctions :
            DeclareFunction(f, d.parameters, d.body)
    \/ \E c \in Conditions : IfEnter(c)
    \/ BlockEnd
    \/ \E e \in {EInt(1), EIdentifier("x")} : Return(e)

Spec == Init /\ [][Next]_vars

-----------------------------------------------------------------------------
(* Function calls.  The same run, with function declarations drawn from a  *)
(* catalogue of bodies and declarations whose initializer is a call.       *)

ReturnA == ReturnStatement(EIdentifier("a"))
Increment(n) == AssignmentStatement(n, EBinaryOperation(EIdentifier(n), "Add", EInt(1)))

\* fn f(a) { return a; }
IdentityFunction == [body |-> <<ReturnA>>, parameters |-> <<"a">>]

\* fn f() { if (true) { return 1; } print(7); return 2; }
ReturnInIf ==
    [body |-> <<IfStatement(EBool(TRUE), <<ReturnStatement(EInt(1))>>),
                PrintStatement(EInt(7)),
                ReturnStatement(EInt(2))>>,
     parameters |-> <<>>]

\* fn f() { if (false) { } else { return 1; } print(7); return 2; }
ReturnInElse ==
    [body |-> <<IfElseStatement(EBool(FALSE), <<>>, <<ReturnStatement(EInt(1))>>),
                PrintStatement(EInt(7)),
                ReturnStatement(EInt(2))>>,
     parameters |-> <<>>]

\* fn f() { let i = 0; while (i < 2) { i = i + 1; return i; } }
ReturnInWhile ==
    [body |-> <<VariableDeclarationStatement("i", EInt(0)),
                WhileStatement(EBinaryOperation(EIdentifier("i"), "Less", EInt(2)),
                               <<Increment("i"), ReturnStatement(EIdentifier("i"))>>)>>,
     parameters |-> <<>>]

\* fn f() { let b = 1; let b = 2; return b; }: the second declaration fails
FailingFunction ==
    [body |-> <<VariableDeclarationStatement("b", EInt(1)),
                VariableDeclarationStatement("b", EInt(2)),
                ReturnStatement(EIdentifier("b"))>>,
     parameters |-> <<>>]

\* fn f() { return g(1); }
CallsOther ==
    [body |-> <<ReturnStatement(EFunctionCall("g", <<EInt(1)>>))>>,
     parameters |-> <<>>]

\* fn f() { return x; }: x is no parameter and no local of the body
ReadsCaller == [body |-> <<ReturnStatement(EIdentifier("x"))>>, parameters |-> <<>>]

\* fn f() { x = 2; return 1; }
WritesCaller ==
    [body |-> <<AssignmentStatement("x", EInt(2)), ReturnStatement(EInt(1))>>,
     parameters |-> <<>>]

\* fn f(a) { let x = a; x = x + 1; return x; }
OwnLocal ==
    [body |-> <<VariableDeclarationStatement("x", EIdentifier("a")),
                Increment("x"),
                ReturnStatement(EIdentifier("x"))>>,
     parameters |-> <<"a">>]

\* fn f() { }
NoReturn == [body |-> <<>>, parameters |-> <<>>]

\* fn f() { if (false) { return 1; } }
ReturnNotReached ==
    [body |-> <<IfStatement(EBool(FALSE), <<ReturnStatement(EInt(1))>>)>>,
     parameters |-> <<>>]

\* fn f() { print(7); return 1; }
Prints ==
    [body |-> <<PrintStatement(EInt(7)), ReturnStatement(EInt(1))>>,
     parameters |-> <<>>]

\* fn f() { let v = 0; input v; return v; }
ReadsLine ==
    [body |-> <<VariableDeclarationStatement("v", EInt(0)),
                InputStatement("v"),
                ReturnStatement(EIdentifier("v"))>>,
     parameters |-> <<>>]

FunctionCatalog ==
    {IdentityFunction, ReturnInIf, ReturnInElse, ReturnInWhile, FailingFunction,
     CallsOther, ReadsCaller, WritesCaller, OwnLocal, NoReturn,
     ReturnNotReached, Prints, ReadsLine}

CallArguments == {<<>>, <<EInt(1)>>, <<EInt(1), EInt(2)>>}

CallExpressions ==
    {EFunctionCall("f", args) : args \in CallArguments} \cup {EFunctionCall("g", <<EInt(1)>>)}

\* z + f() and z == f(): z is declared nowhere, so the left operand fails
AfterFailedOperand ==
    {EBinaryOperation(EIdentifier("z"), operator, EFunctionCall("f", <<>>)) :
        operator \in {"Add", "CompareEq"}}

\* false && z, false && f(), true || z and true || f(): the left operand
\* decides the result, and z is declared nowhere
DecidedByLeft ==
    {EBinaryOperation(EBool(FALSE), "And", e) : e \in {EIdentifier("z"), EFunctionCall("f", <<>>)}}
        \cup
    {EBinaryOperation(EBool(TRUE), "Or", e) : e \in {EIdentifier("z"), EFunctionCall("f", <<>>)}}

NextCall ==
    \/ \E d \in FunctionCatalog : DeclareFunction("f", d.parameters, d.body)
    \/ DeclareFunction("g", IdentityFunction.parameters, IdentityFunction.body)
    \/ Declare("x", EInt(1))
    \/ \E e \in CallExpressions \cup AfterFailedOperand \cup DecidedByLeft : Declare("y", e)
    \/ \E e \in CallExpressions : Write(e)
    \/ IfEnter(EBool(TRUE))
    \/ BlockEnd
    \/ Return(EInt(5))

\* standard input holds no line, or the line 3
InitCall ==
    /\ InitRun
    /\ IdleOperators
    /\ IdleFrontEnd
    /\ stdin \in {<<>>, <<<<"3">>>>}

SpecCall == InitCall /\ [][NextCall]_vars

-----------------------------------------------------------------------------
(* The operator matrices on their own: a pair of operand values is drawn   *)
(* and one binary operator is applied to it, as bin_op_evaluator does once *)
(* both operands are evaluated.                                            *)

MaxOperand == 3     \* Int operands are -MaxOperand..MaxOperand, Floats the halves between
                    \* and -0.0

IntOperands == {IntV(i) : i \in -MaxOperand..MaxOperand}
FloatOperands ==
    {FloatV(n, 2) : n \in (-2 * MaxOperand - 1)..(2 * MaxOperand + 1)} \cup {Zero(-1)}
Operands == IntOperands \cup FloatOperands \cup {BooleanV(TRUE), BooleanV(FALSE)}
                \cup {StrV("a"), StrV("b")}

InitOperators ==
    /\ InitRun
    /\ NoInput
    /\ opl \in Operands
    /\ opr \in Operands
    /\ opres = NoResult
    /\ IdleFrontEnd

\* bin_op_evaluator on the operand values opl and opr
ApplyOperator(operator) ==
    /\ opres = NoResult
    /\ opres' = [operator |-> operator] @@ BinOpResult(operator, Ok(opl), Ok(opr))
    /\ UNCHANGED <<scopes, stdout, stdin, status, stmt, result, steps, opl, opr,
                   src, tokens, program>>

NextOperators == \E operator \in BinaryOperator : ApplyOperator(operator)

SpecOperators == InitOperators /\ [][NextOperators]_vars

-----------------------------------------------------------------------------
(* Input statements.  Standard input holds one line when the run starts;   *)
(* the run declares x with a value of any variant, opens and closes        *)
(* blocks, and reads into x or into the undeclared y.                      *)

InputLines ==
    {<<"3">>, <<" ", "-", "2", "\n">>, <<"+", "7">>, <<"3", ".", "5">>, <<".", "5", "\n">>,
     <<"1", "e", "1">>, <<"N", "a", "N">>, <<"t", "r", "u", "e">>,
     <<"T", "r", "u", "e">>, <<"a", "b", "c">>, <<"3", " ", "4">>, <<"\n">>,
     <<"\f", "5", "\n">>}

TargetValues == {EInt(1), EFloat(5, 2), EBool(FALSE), EStr("s")}

InitInput ==
    /\ InitRun
    /\ IdleOperators
    /\ IdleFrontEnd
    /\ stdin \in {<<line>> : line \in InputLines} \cup {<<>>}

Read(name) ==
    /\ Ready
    /\ Execute(InputStatement(name))

NextInput ==
    \/ \E e \in TargetValues : Declare("x", e)
    \/ \E n \in Names : Read(n)
    \/ IfEnter(EBool(TRUE))
    \/ BlockEnd

SpecInput == InitInput /\ [][NextInput]_vars

-----------------------------------------------------------------------------
(* Control flow.  The run declares the counter x and the variable y, which *)
(* takes a value of any variant, and executes whole if, if/else and while  *)
(* statements whose condition is x < 2, y or a literal.                    *)

MaxFlowSteps == 3   \* statements executed in one run of the control-flow programs

XLessThan2 == EBinaryOperation(EIdentifier("x"), "Less", EInt(2))

\* let t = 1; x = x + 1;
DeclareFirst == <<VariableDeclarationStatement("t", EInt(1)), Increment("x")>>
\* x = x + 1; let t = 1;
DeclareLast == <<Increment("x"), VariableDeclarationStatement("t", EInt(1))>>
\* print(x); x = x + 1;
NoDeclaration == <<PrintStatement(EIdentifier("x")), Increment("x")>>

\* let t = 9; print(t);
DeclareAndPrint ==
    <<VariableDeclarationStatement("t", EInt(9)), PrintStatement(EIdentifier("t"))>>

FlowBodies == {DeclareFirst, DeclareLast, NoDeclaration}
FlowValues == {EInt(1), EFloat(1, 2), EStr("s"), EBool(FALSE)}

\* the control-flow run may execute one more statement
FlowReady == Ready /\ steps < MaxFlowSteps

Let(name, value) ==
    /\ FlowReady
    /\ Execute(VariableDeclarationStatement(name, value))

While(cond, body) ==
    /\ FlowReady
    /\ Execute(WhileStatement(cond, body))

If(cond, then_part) ==
    /\ FlowReady
    /\ Execute(IfStatement(cond, then_part))

IfElse(cond, then_part, else_part) ==
    /\ FlowReady
    /\ Execute(IfElseStatement(cond, then_part, else_part))

NextFlow ==
    \/ \E i \in {0, 1} : Let("x", EInt(i))
    \/ \E e \in FlowValues \cup {EIdentifier("t")} : Let("y", e)
    \/ Let("t", EInt(2))
    \/ \E c \in {XLessThan2, EIdentifier("y")}, b \in FlowBodies : While(c, b)
    \/ \E c \in {XLessThan2, EIdentifier("y")}, b \in FlowBodies \cup {DeclareAndPrint} :
            If(c, b)
    \/ \E c \in {XLessThan2, EIdentifier("y")} : IfElse(c, NoDeclaration, DeclareFirst)
    \/ \E c \in {XLessThan2, EIdentifier("y")} : IfElse(c, DeclareAndPrint, DeclareAndPrint)

SpecFlow == Init /\ [][NextFlow]_vars

-----------------------------------------------------------------------------
(* Recursion.  The run declares the recursive factorial and a variable n   *)
(* of its own, and calls fact(k) from the top level or from a block.       *)

MaxArgument == 5    \* fact is called on 0..MaxArgument

\* fn fact(n) { if (n <= 1) { return 1; } else { return n * fact(n - 1); } }
Factorial ==
    [body |-> <<IfElseStatement(
                    EBinaryOperation(EIdentifier("n"), "LessEq", EInt(1)),
                    <<ReturnStatement(EInt(1))>>,
                    <<ReturnStatement(
                        EBinaryOperation(EIdentifier("n"), "Mul",
                            EFunctionCall("fact",
                                <<EBinaryOperation(EIdentifier("n"), "Sub", EInt(1))>>)))>>)>>,
     parameters |-> <<"n">>]

\* fn fact(n) { if (n <= 1) { return 1; } return n * fact(n - 1); }
GuardedFactorial ==
    [body |-> <<IfStatement(
                    EBinaryOperation(EIdentifier("n"), "LessEq", EInt(1)),
                    <<ReturnStatement(EInt(1))>>),
                ReturnStatement(
                    EBinaryOperation(EIdentifier("n"), "Mul",
                        EFunctionCall("fact",
                            <<EBinaryOperation(EIdentifier("n"), "Sub", EInt(1))>>)))>>,
     parameters |-> <<"n">>]

FactorialCalls == {EFunctionCall("fact", <<EInt(k)>>) : k \in 0..MaxArgument}

NextRecursion ==
    \/ \E d \in {Factorial, GuardedFactorial} : DeclareFunction("fact", d.parameters, d.body)
    \/ Declare("n", EInt(7))
    \/ \E e \in FactorialCalls : Declare("y", e)
    \/ \E e \in FactorialCalls : Write(e)
    \/ IfEnter(EBool(TRUE))
    \/ BlockEnd

SpecRecursion == Init /\ [][NextRecursion]_vars

-----------------------------------------------------------------------------
(* The lexer (parsing/lexer.rs).  The source text is a sequence of         *)
(* characters; tokenize returns the token list, or panics.                 *)

Token(token_type, value) == [value |-> value, token_type |-> token_type]

Letters == {LowerCase[i] : i \in 1..Len(LowerCase)}
Capitals == {UpperCase[i] : i \in 1..Len(UpperCase)}

\* the letters beyond U+007F: U+00AA, U+00B5, U+00BA, U+00C0 to U+00D6,
\* U+00D8 to U+00F6 and U+00F8 to U+00FF
OtherLetters ==
    {"ª", "µ", "º", "À", "Á", "Â", "Ã", "Ä", "Å", "Æ", "Ç", "È", "É",
     "Ê", "Ë", "Ì", "Í", "Î", "Ï", "Ð", "Ñ", "Ò", "Ó", "Ô", "Õ", "Ö",
     "Ø", "Ù", "Ú", "Û", "Ü", "Ý", "Þ", "ß", "à", "á", "â", "ã", "ä",
     "å", "æ", "ç", "è", "é", "ê", "ë", "ì", "í", "î", "ï", "ð", "ñ",
     "ò", "ó", "ô", "õ", "ö", "ø", "ù", "ú", "û", "ü", "ý", "þ", "ÿ"}

\* the numeric characters that are no decimal digit: U+00B2, U+00B3, U+00B9
\* and U+00BC to U+00BE
OtherNumerics == {"²", "³", "¹", "¼", "½", "¾"}

\* char::is_alphabetic
IsAlphabetic(c) == c \in Letters \cup Capitals \cup OtherLetters

\* char::is_numeric
IsNumeric(c) == IsDigit(c) \/ c \in OtherNumerics

\* char::is_alphanumeric: `self.is_alphabetic() || self.is_numeric()`
IsAlphanumeric(c) == IsAlphabetic(c) \/ IsNumeric(c)

\* `let keywords = vec!["let", "fn", "if", "else", "return"];`
keywords == {"let", "fn", "if", "else", "return"}

\* the token pushed for the word ident
WordToken(ident) ==
    IF ident \in keywords
    THEN CASE ident = "let" -> Token("TokLet", ident)
           [] ident = "if" -> Token("TokIf", ident)
           [] ident = "else" -> Token("TokElse", ident)
           [] ident = "fn" -> Token("TokFn", ident)
           [] ident = "return" -> Token("TokReturn", ident)
    ELSE Token("TokIdentifier", ident)

\* the outcomes of tokenize
Tokens(list) == [tokens |-> list, tag |-> "Ok", err |-> ""]
LexerPanic(what) == [tokens |-> <<>>, tag |-> "Panic", err |-> what]

\* the outcome of one character that starts no number and no word: the token
\* pushed (or none), and the characters read beyond the current one
Pushed(token) == [tag |-> "Ok", err |-> "", push |-> <<token>>, already_read |-> 0]
PushedDouble(token) == [tag |-> "Ok", err |-> "", push |-> <<token>>, already_read |-> 1]
Skipped == [tag |-> "Ok", err |-> "", push |-> <<>>, already_read |-> 0]
Unexpected(what) == [tag |-> "Panic", err |-> what, push |-> <<>>, already_read |-> 0]

\* chars.get(i + 1), on the 1-based position i
NoChar == "None"
NextChar(chars, i) == IF i + 1 <= Len(chars) THEN chars[i + 1] ELSE NoChar

\* `for j in i..len` of a number (digits) or of a word: the characters
\* collected, and already_read: one more for each, one less at the first
\* character that does not belong
RECURSIVE Scan(_, _, _, _, _)
RECURSIVE Scan_overrun(_, _, _, _, _)

\* a scan that does not give back the character that ended it
Scan_overrun(chars, j, digits, text, already_read) ==
    IF j > Len(chars) THEN [text |-> text, already_read |-> already_read]
    ELSE IF (IF digits THEN IsDigit(chars[j]) ELSE IsAlphanumeric(chars[j]))
    THEN Scan_overrun(chars, j + 1, digits, Append(text, chars[j]), already_read + 1)
    ELSE [text |-> text, already_read |-> already_read]

Scan(chars, j, digits, text, already_read) ==
    IF j > Len(chars) THEN [text |-> text, already_read |-> already_read]
    ELSE IF (IF digits THEN IsDigit(chars[j]) ELSE IsAlphanumeric(chars[j]))
    THEN Scan(chars, j + 1, digits, Append(text, chars[j]), already_read + 1)
    ELSE [text |-> text, already_read |-> already_read - 1]

\* the arms of = < > and !: one token when next_c is `=`, the single one otherwise
Comparison(curr_c, next_c) ==
    CASE curr_c = "=" ->
            IF next_c = "=" THEN PushedDouble(Token("TokEq", "=="))
            ELSE Pushed(Token("TokEquals", curr_c))
      [] curr_c = "<" ->
            IF next_c = "=" THEN PushedDouble(Token("TokLessEq", "<="))
            ELSE Pushed(Token("TokLess", curr_c))
      [] curr_c = ">" ->
            IF next_c = "=" THEN PushedDouble(Token("TokGreaterEq", ">="))
            ELSE Pushed(Token("TokGreater", curr_c))
      [] curr_c = "!" ->
            IF next_c = "=" THEN PushedDouble(Token("TokNeq", curr_c))
            ELSE Pushed(Token("TokNot", curr_c))

\* a doubled | or & whose second character is taken whatever it is
Logical_lenient(curr_c, next_c) ==
    IF curr_c = "|" THEN PushedDouble(Token("TokOr", "||"))
    ELSE PushedDouble(Token("TokAnd", "&&"))

\* the arms of | and &: one token when next_c is the same character, a panic otherwise
Logical(curr_c, next_c) ==
    IF curr_c = "|"
    THEN IF next_c = "|" THEN PushedDouble(Token("TokOr", "||")) ELSE Unexpected("Expected |")
    ELSE IF next_c = "&" THEN PushedDouble(Token("TokAnd", "&&")) ELSE Unexpected("Expected &")

\* the token types of the one-character arms
Single ==
    [c \in {"(", ")", "[", "]", "{", "}", "+", "-", "*", "/", ";", ","} |->
        CASE c = "(" -> "TokLpar" [] c = ")" -> "TokRpar"
          [] c = "[" -> "TokLsquare" [] c = "]" -> "TokRsquare"
          [] c = "{" -> "TokLbrace" [] c = "}" -> "TokRbrace"
          [] c = "+" -> "TokPlus" [] c = "-" -> "TokMinus"
          [] c = "*" -> "TokTimes" [] c = "/" -> "TokDivides"
          [] c = ";" -> "TokSemi" [] c = "," -> "TokComma"]

\* `match curr_c { ... }`
Symbol(curr_c, next_c) ==
    CASE curr_c \in {" ", "\n", "\t"} -> Skipped
      [] curr_c \in DOMAIN Single -> Pushed(Token(Single[curr_c], curr_c))
      [] curr_c \in {"=", "<", ">", "!"} -> Comparison(curr_c, next_c)
      [] curr_c \in {"|", "&"} -> Logical(curr_c, next_c)
      [] OTHER -> Unexpected("Error, unexpected token")

RECURSIVE TokenizeFrom(_, _, _, _)

\* a number or a word has been scanned from position i
Scanned(chars, i, list, token_type, scan) ==
    TokenizeFrom(chars, i + 1, scan.already_read,
                 Append(list, IF token_type = "TokNumber"
                              THEN Token("TokNumber", StringOf(scan.text))
                              ELSE WordToken(StringOf(scan.text))))

\* the match on a character that starts no number and no word has been made
Matched(chars, i, list, symbol) ==
    IF symbol.tag = "Panic" THEN LexerPanic(symbol.err)
    ELSE TokenizeFrom(chars, i + 1, symbol.already_read, list \o symbol.push)

\* after the loop: `tokens.push(Token { token_type: TokEOF, ... }); return tokens;`
TokenizeEnd(list) == Tokens(Append(list, Token("TokEOF", "EOF")))

\* `for mut i in 0..len`, from position i (1-based) on
TokenizeFrom(chars, i, already_read, list) ==
    IF i > Len(chars) THEN TokenizeEnd(list)
    ELSE IF already_read > 0 THEN TokenizeFrom(chars, i + 1, already_read - 1, list)
    ELSE IF IsDigit(chars[i])
    THEN Scanned(chars, i, list, "TokNumber", Scan(chars, i, TRUE, <<>>, already_read))
    ELSE IF IsAlphabetic(chars[i])
    THEN Scanned(chars, i, list, "TokIdentifier", Scan(chars, i, FALSE, <<>>, already_read))
    ELSE Matched(chars, i, list, Symbol(chars[i], NextChar(chars, i)))

tokenize(chars) == TokenizeFrom(chars, 1, 0, <<>>)

-----------------------------------------------------------------------------
(* The parser (parsing/parser.rs), on the token list of tokenize.  The     *)
(* expression of a statement is not parsed: its tokens are passed over up  *)
(* to the next `;`.                                                        *)

\* LetStatement { token, name: Identifier { token, value }, value: Expression {} }
LetStatement(name) == [k |-> "LetStatement", name |-> name]
\* ReturnStatement { token, value: Expression {} }
ParsedReturnStatement == [k |-> "ReturnStatement", name |-> ""]

\* the outcomes of parse_statement: (statement, consumed_tokens), or a panic
Statement(stmt_to_return, consumed_tokens) ==
    [tag |-> "Ok", err |-> "", consumed_tokens |-> consumed_tokens,
     statement |-> stmt_to_return]
SyntaxError(what) ==
    [tag |-> "Panic", err |-> what, consumed_tokens |-> 0,
     statement |-> ParsedReturnStatement]

\* the outcomes of parse
Program(statements) == [tag |-> "Ok", err |-> "", statements |-> statements]
ParserPanic(what) == [tag |-> "Panic", err |-> what, statements |-> <<>>]

\* `loop { curr_token = tokens.get(index + local_index).unwrap(); ... }`: the
\* position of the first TokSemi from position j on, or 0 when `unwrap` finds
\* no token left
RECURSIVE NextSemi(_, _)
NextSemi(list, j) ==
    IF j > Len(list) THEN 0
    ELSE IF list[j].token_type = "TokSemi" THEN j
    ELSE NextSemi(list, j + 1)

\* the end of a statement whose tokens have been passed over up to position semi
UpToSemi(index, stmt_to_return, semi) ==
    IF semi = 0 THEN SyntaxError("called unwrap on a None value")
    ELSE Statement(stmt_to_return, semi - index + 1)

\* parse_let_statement, at the position index (1-based) of the token list
parse_let_statement(list, index) ==
    IF list[index].token_type # "TokLet"
    THEN SyntaxError("Syntax error, expected let keyword")
    ELSE IF index + 1 > Len(list)
    THEN SyntaxError("called unwrap on a None value")
    ELSE IF list[index + 1].token_type # "TokIdentifier"
    THEN SyntaxError("Syntax error, expected an identifier")
    ELSE IF index + 2 > Len(list)
    THEN SyntaxError("called unwrap on a None value")
    ELSE IF list[index + 2].token_type # "TokEquals"
    THEN SyntaxError("Syntax error, expected =")
    ELSE UpToSemi(index, LetStatement(list[index + 1].value), NextSemi(list, index + 3))

\* parse_return_statement
parse_return_statement(list, index) ==
    IF list[index].token_type # "TokReturn"
    THEN SyntaxError("Syntax error, expected return keyword")
    ELSE UpToSemi(index, ParsedReturnStatement, NextSemi(list, index + 1))

\* the `_` arm of parse_statement: `(stmt, 0)`
NoTokens(r) == IF r.tag = "Panic" THEN r ELSE Statement(r.statement, 0)

parse_statement(list, index) ==
    CASE list[index].token_type = "TokLet" -> parse_let_statement(list, index)
      [] list[index].token_type = "TokReturn" -> parse_return_statement(list, index)
      [] OTHER -> NoTokens(parse_let_statement(list, index))

RECURSIVE ParseFrom(_, _, _, _)

\* `read_tokens = consumed_tokens; program.statements.push(curr_stmt);`
ParseNext(list, i, statements, r) ==
    IF r.tag = "Panic" THEN ParserPanic(r.err)
    ELSE ParseFrom(list, i + 1, r.consumed_tokens, Append(statements, r.statement))

\* `for i in 0..tokens.len()`, from position i (1-based) on
ParseFrom(list, i, read_tokens, statements) ==
    IF i > Len(list) THEN Program(statements)
    ELSE IF read_tokens > 0 THEN ParseFrom(list, i + 1, read_tokens - 1, statements)
    ELSE IF list[i].token_type = "TokEOF" THEN Program(statements)
    ELSE ParseNext(list, i, statements, parse_statement(list, i))

parse(list) == ParseFrom(list, 1, 0, <<>>)

-----------------------------------------------------------------------------
(* The lexer on its own: a source text of at most MaxSourceLen characters  *)
(* is drawn and tokenize runs on it.                                       *)

MaxSourceLen == 4   \* characters of a source text

\* the letters of `if`, a capital letter, a digit, the comparison and logical
\* operator characters, a blank, and a character that tokenize does not know
SourceChars == {"i", "f", "A", "1", "=", "<", ">", "!", "|", "&", " ", "?"}

SourceTexts == UNION {[1..n -> SourceChars] : n \in 0..MaxSourceLen}

InitLexer ==
    /\ InitRun
    /\ IdleOperators
    /\ NoInput
    /\ src \in SourceTexts
    /\ tokens = NotRun
    /\ program = NotRun

\* `let tokens = tokenize(&src);`
Tokenize ==
    /\ tokens = NotRun
    /\ tokens' = tokenize(src)
    /\ UNCHANGED <<scopes, stdout, stdin, status, stmt, result, steps, opl, opr, opres,
                   src, program>>

NextLexer == Tokenize

SpecLexer == InitLexer /\ [][NextLexer]_vars

-----------------------------------------------------------------------------
(* The front end: a source text of at most MaxStatements statements is     *)
(* tokenized and the token list is parsed.                                 *)

MaxStatements == 3  \* statements of a source text

\* let x = 10;
LetX == <<"l", "e", "t", " ", "x", " ", "=", " ", "1", "0", ";">>
\* let y=x+1;
LetY == <<"l", "e", "t", " ", "y", "=", "x", "+", "1", ";">>
\* return x;
ReturnX == <<"r", "e", "t", "u", "r", "n", " ", "x", ";">>
\* x = 1;
AssignX == <<"x", " ", "=", " ", "1", ";">>

SourceStatements == {LetX, LetY, ReturnX, AssignX}

\* the statements of a text, one after the other on one line
RECURSIVE Concatenated(_)
Concatenated(texts) ==
    IF texts = <<>> THEN <<>> ELSE Head(texts) \o <<" ">> \o Concatenated(Tail(texts))

Sources ==
    {Concatenated(texts) :
        texts \in UNION {[1..n -> SourceStatements] : n \in 1..MaxStatements}}

InitParser ==
    /\ InitRun
    /\ IdleOperators
    /\ NoInput
    /\ src \in Sources
    /\ tokens = NotRun
    /\ program = NotRun

\* `let parsed = parse(&tokens);`
Parse ==
    /\ tokens # NotRun
    /\ tokens.tag = "Ok"
    /\ program = NotRun
    /\ program' = parse(tokens.tokens)
    /\ UNCHANGED <<scopes, stdout, stdin, status, stmt, result, steps, opl, opr, opres,
                   src, tokens>>

NextParser == Tokenize \/ Parse

SpecParser == InitParser /\ [][NextParser]_vars

-----------------------------------------------------------------------------
(* Properties.  The scope chain is read here from the parent links and the *)
(* local tables alone, never from the reachable_* sets the code consults.  *)

\* the scopes from sid up to the root of its chain
RECURSIVE Chain(_, _)
Chain(arena, sid) ==
    IF sid = 0 THEN {} ELSE {sid} \cup Chain(arena, arena[sid].parent)

\* the innermost scope of sid's chain that binds variable n locally, or 0
RECURSIVE Owner(_, _, _)
Owner(arena, sid, n) ==
    IF sid = 0 THEN 0
    ELSE IF n \in DOMAIN arena[sid].local_variables THEN sid
    ELSE Owner(arena, arena[sid].parent, n)

VariableBound(arena, sid, n) == Owner(arena, sid, n) # 0

FunctionBound(arena, sid, f) ==
    \E c \in Chain(arena, sid) : f \in DOMAIN arena[c].local_functions

\* the step executed one more statement, of kind k
Executed(k) == steps' = steps + 1 /\ stmt'.k = k

\* what a failed statement leaves of the arena: the open branches end with
\* the Err and their scopes are dropped, main_scope stays
AfterFailure(arena) == SubSeq(arena, 1, 1)

\* the step changed no scope: every scope is as it was, the scopes of the
\* open branches having ended when the step failed
ScopesKept == scopes' = IF status' = "failed" THEN AfterFailure(scopes) ELSE scopes

\* the step's statement, where it ran, left every scope of the arena as it was
NoScopeTouched == ExecuteStatement(stmt', machine, current).m.scopes = scopes

RECURSIVE InBranches(_, _)
\* error e of a statement depth - 1 branches deep, as the run reports it
InBranches(depth, e) ==
    IF depth = 1 THEN e
    ELSE InBranches(depth - 1, Wrap("Error during if-else evaluation", e))

\* a literal or an identifier that the chain of sid binds
Evaluable(arena, sid, e) ==
    e.e = "Int" \/ (e.e = "Identifier" /\ VariableBound(arena, sid, e.name))

\* the value of such an expression
ValueIn(arena, sid, e) ==
    IF e.e = "Int" THEN IntV(e.i)
    ELSE arena[Owner(arena, sid, e.name)].local_variables[e.name]

\* C1: a declaration of a name that is bound in the current scope or in any
\* of its ancestors fails, and the failure changes no scope: the statement
\* leaves the arena as it was, and main_scope is what the failed run keeps.
C1_DeclarationOfBoundNameFails ==
    [][(Executed("VariableDeclarationStatement")
            /\ VariableBound(scopes, current, stmt'.name))
        => (status' = "failed" /\ result'.tag = "Err"
                /\ NoScopeTouched /\ scopes' = AfterFailure(scopes))]_vars

\* a declaration has just failed, two branches deep, for a name that
\* main_scope binds
C1_Witness ==
    /\ status = "failed"
    /\ stmt.k = "VariableDeclarationStatement"
    /\ stmt.value.e = "Int"
    /\ stmt.name \in DOMAIN scopes[1].local_variables
    /\ result.err.lines = <<"Error during if-else evaluation",
                            "Error during if-else evaluation",
                            "Error during variable declaration", "You are overshadowing">>

\* C2: an assignment overwrites the binding of the innermost scope of the chain
\* that binds the name and changes nothing else; with no such scope it fails
\* and no scope changes; and closing a block leaves every enclosing scope as
\* the block's statements left it.
C2_AssignmentWritesInnermostBinding ==
    [][/\ Executed("AssignmentStatement") =>
            IF VariableBound(scopes, current, stmt'.name)
                /\ Evaluable(scopes, current, stmt'.value)
            THEN /\ status' = "running"
                 /\ scopes' = [scopes EXCEPT
                        ![Owner(scopes, current, stmt'.name)].local_variables =
                            MapInsert(@, stmt'.name,
                                      ValueIn(scopes, current, stmt'.value))]
            ELSE /\ status' = "failed"
                 /\ NoScopeTouched
                 /\ scopes' = AfterFailure(scopes)
       /\ stmt' = EndOfBlock => scopes' = SubSeq(scopes, 1, current - 1)
      ]_vars

\* an assignment inside a nested block has just overwritten a binding of main_scope
C2_Witness ==
    /\ status = "running"
    /\ stmt.k = "AssignmentStatement"
    /\ stmt.value = EInt(2)
    /\ current = 3
    /\ Owner(scopes, current, stmt.name) = 1
    /\ scopes[1].local_variables[stmt.name] = IntV(2)

\* the function the chain of sid resolves name f to: the innermost declaration
RECURSIVE Callee(_, _, _)
Callee(arena, sid, f) ==
    IF f \in DOMAIN arena[sid].local_functions
    THEN [body |-> arena[sid].local_functions[f].body,
          parameters |-> arena[sid].local_functions[f].args]
    ELSE Callee(arena, arena[sid].parent, f)

\* the expression of a declaration or of a print
OperandOf(s) == IF s.k = "PrintStatement" THEN s.content ELSE s.value

\* the step executed a declaration or a print whose expression is a call of a
\* function that the current chain declares
Called ==
    /\ steps' = steps + 1
    /\ stmt'.k \in {"VariableDeclarationStatement", "PrintStatement"}
    /\ OperandOf(stmt').e = "FunctionCall"
    /\ FunctionBound(scopes, current, OperandOf(stmt').name)

\* ... and the function called is d
Calls(d) == Called /\ Callee(scopes, current, OperandOf(stmt').name) = d

\* ... with as many arguments as d has parameters
CallsInArity(d) ==
    Calls(d) /\ Len(OperandOf(stmt').arguments) = Len(d.parameters)

\* the step's call expression evaluated to value v: a print wrote v, and a
\* declaration either bound its name to v or failed in insert_value
Yielded(v) ==
    /\ stmt'.k = "PrintStatement" =>
            status' = "running" /\ stdout' = Append(stdout, v)
    /\ stmt'.k = "VariableDeclarationStatement" =>
            /\ stdout' = stdout
            /\ IF VariableBound(scopes, current, stmt'.name)
               THEN status' = "failed"
               ELSE /\ status' = "running"
                    /\ scopes'[current].local_variables[stmt'.name] = v

\* C3: a return inside an if/else branch or a while body of a function ends
\* the call: the statements after the if (print(7); return 2) are not executed
\* and the while runs no further iteration, so the call yields the value of
\* that first return.
C3_ReturnInNestedBlockEndsTheCall ==
    [][(CallsInArity(ReturnInIf) \/ CallsInArity(ReturnInElse)
            \/ CallsInArity(ReturnInWhile))
        => Yielded(IntV(1))]_vars

\* C4: a call of a function whose body fails ends the run in the error outcome
\* with an error result, never in an abort.
C4_FailedBodyIsAnErrorResult ==
    [][CallsInArity(FailingFunction)
        => (status' = "failed" /\ result'.tag = "Err")]_vars

\* C6: a call with fewer or more arguments than the function has parameters
\* fails, and the body is not executed: nothing is printed, no scope changes.
C6_ArityMismatchFails ==
    [][(Called /\ Len(OperandOf(stmt').arguments)
                    # Len(Callee(scopes, current, OperandOf(stmt').name).parameters))
        => (status' = "failed" /\ result'.tag = "Err"
                /\ stdout' = stdout /\ ScopesKept)]_vars

\* C7: inside the body of f, a call g(1) of the function g declared at top
\* level resolves to g and executes it: with g the identity, f() yields 1.
C7_BodySeesGlobalFunctions ==
    [][(CallsInArity(CallsOther)
            /\ "g" \in DOMAIN scopes[1].local_functions
            /\ Callee(scopes, 1, "g") = IdentityFunction)
        => Yielded(IntV(1))]_vars

\* C8: a function body neither reads nor modifies a variable of the caller's
\* chain.  A body that looks up or assigns x, which is no parameter and no
\* local of it, yields no value whether or not the caller binds x, and leaves
\* every scope as it was; a body that declares its own x works on that one;
\* and no call changes any binding the caller's chain held.
C8_FunctionBodyIsIsolatedFromCaller ==
    [][/\ (Calls(ReadsCaller) \/ Calls(WritesCaller)) =>
            (status' # "running" /\ ScopesKept /\ stdout' = stdout)
       /\ (Calls(OwnLocal) /\ OperandOf(stmt').arguments = <<EInt(1)>>) =>
            Yielded(IntV(2))
       /\ Called =>
            \A c \in 1..Len(scopes') : \A n \in DOMAIN scopes[c].local_variables :
                /\ n \in DOMAIN scopes'[c].local_variables
                /\ scopes'[c].local_variables[n] = scopes[c].local_variables[n]
      ]_vars

\* the caller binds x, and a call of fn f() { return x; } has just been
\* executed without resolving x
C8_Witness ==
    /\ stmt.k = "VariableDeclarationStatement"
    /\ stmt.value = EFunctionCall("f", <<>>)
    /\ status # "running"
    /\ "x" \in DOMAIN scopes[1].local_variables
    /\ "f" \in DOMAIN scopes[1].local_functions
    /\ Callee(scopes, 1, "f") = ReadsCaller

\* C11: once the left operand of a binary operation has failed, the right
\* operand is not evaluated: the statement fails, and nothing that a function
\* called from the right operand does (a print, a read) takes effect.
C11_RightOperandNotEvaluatedAfterFailure ==
    [][(Executed("VariableDeclarationStatement")
            /\ stmt'.value.e = "BinaryOperation"
            /\ stmt'.value.lhs.e = "Identifier"
            /\ ~VariableBound(scopes, current, stmt'.value.lhs.name))
        => (status' # "running" /\ stdout' = stdout /\ stdin' = stdin)]_vars

\* the value each line of InputLines reads as: Integer first, then Float,
\* then Boolean, then String, on the trimmed line
ExpectedValue(line) ==
    CASE line = <<"3">> -> IntV(3)
      [] line = <<" ", "-", "2", "\n">> -> IntV(-2)
      [] line = <<"+", "7">> -> IntV(7)
      [] line = <<"3", ".", "5">> -> FloatV(7, 2)
      [] line = <<".", "5", "\n">> -> FloatV(1, 2)
      [] line = <<"1", "e", "1">> -> FloatV(10, 1)
      [] line = <<"N", "a", "N">> -> FloatV(0, 0)
      [] line = <<"t", "r", "u", "e">> -> BooleanV(TRUE)
      [] line = <<"T", "r", "u", "e">> -> StrV("True")
      [] line = <<"a", "b", "c">> -> StrV("abc")
      [] line = <<"3", " ", "4">> -> StrV("3 4")
      [] line = <<"\f", "5", "\n">> -> IntV(5)
      [] OTHER -> StrV("")

\* the step executed an Input statement whose target the chain binds
ReadBound ==
    /\ Executed("InputStatement")
    /\ VariableBound(scopes, current, stmt'.name)

\* the value the chain holds for the target of the Input statement executed
TargetValue == scopes[Owner(scopes, current, stmt'.name)].local_variables[stmt'.name]

\* C12: an Input statement whose target is bound anywhere in the chain, given
\* a line of the target's variant, assigns the value read to the innermost
\* binding, also from a nested block; it fails as undefined only when no
\* scope of the chain binds the name.
C12_InputAssignsEnclosingBinding ==
    [][/\ (ReadBound /\ ExpectedValue(ReadLine(stdin)).t = TargetValue.t) =>
            /\ status' = "running"
            /\ scopes' = [scopes EXCEPT
                    ![Owner(scopes, current, stmt'.name)].local_variables =
                        MapInsert(@, stmt'.name, ExpectedValue(ReadLine(stdin)))]
       /\ (Executed("InputStatement") /\ status' = "failed"
                /\ result'.err.lines
                        = InBranches(current, Msg("Input variable does not exist")).lines) =>
            ~VariableBound(scopes, current, stmt'.name)
      ]_vars

\* C13: an Input statement whose line reads as a variant other than the
\* target's fails and leaves every binding as it was; the error is the type
\* incoherence naming the target's variant, wherever in the chain the
\* target is bound.
C13_InputOfOtherVariantFails ==
    [][(ReadBound /\ ExpectedValue(ReadLine(stdin)).t # TargetValue.t) =>
            /\ status' = "failed"
            /\ result'.tag = "Err"
            /\ NoScopeTouched
            /\ scopes' = AfterFailure(scopes)
            /\ stdout' = stdout
            /\ result'.err = InBranches(current, TypeIncoherence(stmt'.name, TargetValue))
      ]_vars

\* the Integer the chain binds x to
CounterIs(i) ==
    /\ VariableBound(scopes, current, "x")
    /\ ValueIn(scopes, current, EIdentifier("x")) = IntV(i)

\* the statement list declares a variable directly
DeclaresDirectly(body) ==
    \E i \in 1..Len(body) : body[i].k = "VariableDeclarationStatement"

\* the scopes with the binding of x, in main_scope, set to Integer i
WithCounter(i) == [scopes EXCEPT ![1].local_variables = MapInsert(@, "x", IntV(i))]

\* C14: a while loop whose body declares a variable directly fails on its
\* second iteration with the duplicate-declaration error, what the first
\* iteration and the start of the second did to x being kept; with a
\* condition that holds once only, the loop ends normally.
C14_DeclarationInLoopBodyFailsOnSecondIteration ==
    [][(Executed("WhileStatement") /\ stmt'.cond = XLessThan2
            /\ DeclaresDirectly(stmt'.body)
            /\ ~VariableBound(scopes, current, "t"))
        => /\ CounterIs(0) =>
                /\ status' = "failed"
                /\ result'.err.lines =
                        <<"Error during while evaluation",
                          "Error during variable declaration",
                          "A variable with this name already exists and it is in scope">>
                /\ result'.err.vals = <<StrV("t")>>
                /\ scopes' = WithCounter(IF stmt'.body = DeclareFirst THEN 1 ELSE 2)
           /\ CounterIs(1) => (status' = "running" /\ scopes' = WithCounter(2))
      ]_vars

\* a loop over x < 2 whose body starts with a declaration has just failed in
\* its second iteration
C14_Witness ==
    /\ stmt = WhileStatement(XLessThan2, DeclareFirst)
    /\ status = "failed"
    /\ result.err.lines[3] = "A variable with this name already exists and it is in scope"
    /\ scopes[1].local_variables["x"] = IntV(1)

\* the value of y is an Integer, a Float or a String
NonBooleanY ==
    /\ VariableBound(scopes, current, "y")
    /\ ValueIn(scopes, current, EIdentifier("y")).t \in {"Int", "Float", "Str"}

\* C15: an if, if/else or while statement whose condition evaluates to an
\* Integer, a Float or a String fails with the non-Boolean-condition error;
\* no branch or body runs, no binding changes, nothing is printed, and after
\* the failure no statement is executed.
C15_NonBooleanConditionFails ==
    [][/\ (steps' = steps + 1
            /\ stmt'.k \in {"IfStatement", "IfElseStatement", "WhileStatement"}
            /\ stmt'.cond = EIdentifier("y")
            /\ NonBooleanY)
          => /\ status' = "failed"
             /\ result'.tag = "Err"
             /\ result'.err = NoCondition(ValueIn(scopes, current, EIdentifier("y")))
             /\ scopes' = scopes
             /\ stdout' = stdout
       /\ status = "failed" => UNCHANGED vars
      ]_vars

\* a while statement has just failed on a condition holding a Float
C15_Witness ==
    /\ stmt.k = "WhileStatement"
    /\ stmt.cond = EIdentifier("y")
    /\ status = "failed"
    /\ "y" \in DOMAIN scopes[1].local_variables
    /\ scopes[1].local_variables["y"] = FloatV(1, 2)
    /\ result.err = Msg("Float cannot be used as if condition")

\* C16: a call of a function whose body executes no return yields Integer 0,
\* whatever earlier calls returned and whatever the return slots of the
\* caller's scopes hold.
C16_CallWithoutReturnYieldsZero ==
    [][(CallsInArity(NoReturn) \/ CallsInArity(ReturnNotReached))
        => Yielded(IntV(0))]_vars

\* f() of fn f() { } has just printed 0 while the return slot of main_scope holds 5
C16_Witness ==
    /\ stmt = PrintStatement(EFunctionCall("f", <<>>))
    /\ status = "running"
    /\ "f" \in DOMAIN scopes[1].local_functions
    /\ Callee(scopes, 1, "f") = NoReturn
    /\ scopes[1].return_value = IntV(5)
    /\ stdout # <<>>
    /\ stdout[Len(stdout)] = IntV(0)

\* n!
RECURSIVE Product(_)
Product(n) == IF n <= 1 THEN 1 ELSE n * Product(n - 1)

\* C17: the recursive factorial yields k! for every argument k of 1..5
\* (fact(5) yields 120), and a variable n of the caller keeps its value.
C17_RecursiveFactorial ==
    [][Calls(Factorial) =>
            /\ Yielded(IntV(Product(OperandOf(stmt').arguments[1].i)))
            /\ VariableBound(scopes, current, "n") =>
                    ValueIn(scopes', current, EIdentifier("n")) = IntV(7)
      ]_vars

\* let y = fact(5) has just bound y to 120
C17_Witness ==
    /\ stmt = VariableDeclarationStatement("y", EFunctionCall("fact", <<EInt(5)>>))
    /\ status = "running"
    /\ Callee(scopes, 1, "fact") = Factorial
    /\ "y" \in DOMAIN scopes[1].local_variables
    /\ scopes[1].local_variables["y"] = IntV(120)

\* C9: a function declaration fails when the name is declared in the same
\* block or in an enclosing block, whatever variables exist.
C9_FunctionDeclarationOfVisibleNameFails ==
    [][(Executed("FunctionDeclaration") /\ FunctionBound(scopes, current, stmt'.name))
        => status' = "failed"]_vars

\* the operator has been applied to an Int and a Float operand, in either order
MixedOperands ==
    /\ opres # NoResult
    /\ {opl.t, opr.t} = {"Int", "Float"}

\* C5: a / b and a % b on Integer operands, b = 0 included, produce a Value
\* or an Error, never an abort.
C5_IntegerDivisionNeverAborts ==
    (opres # NoResult /\ opres.operator \in {"Div", "Mod"}
        /\ opl.t = "Int" /\ opr.t = "Int")
    => opres.tag \in {"Ok", "Err"}

\* C10: < > <= >= on one Integer and one Float operand, in either order, give
\* the comparison of the two operands as Floats, the Integer promoted.
C10_MixedComparisonPromotesTheInteger ==
    (MixedOperands /\ opres.operator \in {"Less", "Greater", "LessEq", "GreaterEq"})
    => /\ opres.tag = "Ok"
       /\ opres.val =
            BooleanV(CASE opres.operator = "Less" -> FLess(AsF64(opl), AsF64(opr))
                       [] opres.operator = "Greater" -> FLess(AsF64(opr), AsF64(opl))
                       [] opres.operator = "LessEq" -> FLessEq(AsF64(opl), AsF64(opr))
                       [] opres.operator = "GreaterEq" -> FLessEq(AsF64(opr), AsF64(opl)))

\* the operator has failed on the operands' variants: the last line of the
\* error is the operator's message and the error shows both operand values
IncompatibleOperands(what) ==
    /\ opres.tag = "Err"
    /\ opres.err.lines[Len(opres.err.lines)] = what
    /\ opres.err.vals = <<opl, opr>>

\* the Integer a is an exact multiple of the Integer b
ExactMultiple(a, b) == \E q \in -Abs(a)..Abs(a) : a = b * q

\* the finite Float v = s * m * 2^e is the quotient a / b of the Integers,
\* b # 0, as near as an f64 comes to it: it has the sign of the quotient and
\* is off by half a unit of its last digit at most,
\* 2 * |m * b - a / 2^e| <= |b|
NearestQuotient(v, a, b) ==
    /\ v.kind = "finite"
    /\ v.sign = Sign(a) * Sign(b)
    /\ v.exp <= 0
    /\ BigBitLen(v.mant) = 53
    /\ ~BigLess(BigOf(Abs(b)),
                BigShl(BigDistance(BigMulSmall(v.mant, Abs(b)),
                                   BigShl(BigOf(Abs(a)), -v.exp)), 1))

\* C18: Integer a / Integer b with b not 0 gives the Integer a/b when a is
\* an exact multiple of b and otherwise the Float that is the true quotient
\* (the f64 nearest to it), for negative operands too; a division of two
\* numbers of which at least one is a Float gives a Float.
C18_IntegerDivisionIsExactOrFloat ==
    (opres # NoResult /\ opres.operator = "Div" /\ Numeric(opl) /\ Numeric(opr))
    => IF opl.t = "Int" /\ opr.t = "Int"
       THEN opr.i # 0
            => /\ opres.tag = "Ok"
               /\ IF ExactMultiple(opl.i, opr.i)
                  THEN opres.val.t = "Int" /\ opres.val.i * opr.i = opl.i
                  ELSE /\ opres.val.t = "Float"
                       /\ NearestQuotient(opres.val, opl.i, opr.i)
       ELSE opres.tag = "Ok" /\ opres.val.t = "Float"

C18_Witness ==
    /\ opres # NoResult
    /\ opres.operator = "Div"
    /\ opl = IntV(-3)
    /\ opr = IntV(2)
    /\ opres.tag = "Ok"
    /\ opres.val = FloatV(-3, 2)

\* C19: % gives a value only for two Integer operands, the Integer
\* remainder (3 % 2 is 1); every other pair of operand variants, Float % Integer
\* and Float % Float included, fails with an incompatible-operands error
\* that shows both operand values.
C19_ModuloOnlyOfIntegers ==
    (opres # NoResult /\ opres.operator = "Mod")
    => IF opl.t = "Int" /\ opr.t = "Int"
       THEN opr.i # 0
            => /\ opres.tag = "Ok"
               /\ opres.val.t = "Int"
               /\ Abs(opres.val.i) < Abs(opr.i)
               /\ opres.val.i * opl.i >= 0
               /\ ExactMultiple(opl.i - opres.val.i, opr.i)
               /\ (opl = IntV(3) /\ opr = IntV(2)) => opres.val = IntV(1)
       ELSE IncompatibleOperands("Modulo between incompatible types")

C19_Witness ==
    /\ opres # NoResult
    /\ opres.operator = "Mod"
    /\ opl = FloatV(3, 2)
    /\ opr = IntV(2)
    /\ opres.tag = "Err"
    /\ opres.err.vals = <<FloatV(3, 2), IntV(2)>>

\* two operands of one variant hold the same value: Floats that are no NaN
\* are compared as numbers (-0.0 is 0.0), everything else as it is
SameValue(a, b) ==
    IF a.t = "Float" THEN (IsZero(a) /\ IsZero(b)) \/ a = b
    ELSE a = b

\* C20: == and != give a Boolean only when both operands have the same
\* variant and fail with an incompatible-operands error for every pair of
\* different variants, Integer with Float and true with 1 included; on
\* operands of one variant, a != b is the negation of a == b.
C20_EqualityOnlyWithinOneVariant ==
    (opres # NoResult /\ opres.operator \in {"CompareEq", "CompareNeq"})
    => IF opl.t = opr.t
       THEN /\ opres.tag = "Ok"
            /\ opres.val = BooleanV(SameValue(opl, opr) = (opres.operator = "CompareEq"))
            /\ LET eq == BinOpResult("CompareEq", Ok(opl), Ok(opr))
                   neq == BinOpResult("CompareNeq", Ok(opl), Ok(opr))
               IN  eq.tag = "Ok" /\ neq.tag = "Ok" /\ neq.val.b = ~eq.val.b
       ELSE IncompatibleOperands(IF opres.operator = "CompareEq"
                                 THEN "Logical EQ between incompatible types"
                                 ELSE "Logical NEQ between incompatible types")

C20_Witness ==
    /\ opres # NoResult
    /\ opres.operator = "CompareEq"
    /\ opl = BooleanV(TRUE)
    /\ opr = IntV(1)
    /\ opres.tag = "Err"

\* twice the value of an operand number: an Int, or a Float that is a
\* multiple of one half
Twice(v) ==
    IF v.t = "Int" THEN 2 * v.i
    ELSE IF IsZero(v) THEN 0
    ELSE CHOOSE n \in (-2 * MaxOperand - 1)..(2 * MaxOperand + 1) : v = FloatV(n, 2)

\* the Float v is the exact sum, difference or product of the numbers a and b
ExactResult(operator, a, b, v) ==
    SameValue(v, CASE operator = "Add" -> FloatV(Twice(a) + Twice(b), 2)
                   [] operator = "Sub" -> FloatV(Twice(a) - Twice(b), 2)
                   [] operator = "Mul" -> FloatV(Twice(a) * Twice(b), 4))

\* C21: for + - *, two Integers give an Integer; an Integer with a Float, in
\* either order, gives the Float that the operation gives on the promoted
\* Integer; every pair with a Boolean or a String operand, String + String
\* included, fails with an incompatible-operands error.
C21_ArithmeticPromotesIntegers ==
    (opres # NoResult /\ opres.operator \in {"Add", "Sub", "Mul"})
    => IF opl.t = "Int" /\ opr.t = "Int"
       THEN /\ opres.tag = "Ok"
            /\ opres.val.t = "Int"
            /\ opres.val.i = (CASE opres.operator = "Add" -> opl.i + opr.i
                                [] opres.operator = "Sub" -> opl.i - opr.i
                                [] opres.operator = "Mul" -> opl.i * opr.i)
       ELSE IF Numeric(opl) /\ Numeric(opr)
       THEN /\ opres.tag = "Ok"
            /\ opres.val.t = "Float"
            /\ ExactResult(opres.operator, opl, opr, opres.val)
            /\ opres.val = BinOpResult(opres.operator, Ok(AsF64(opl)), Ok(AsF64(opr))).val
       ELSE IncompatibleOperands(CASE opres.operator = "Add" -> "Sum between incompatible types"
                                   [] opres.operator = "Sub" -> "Difference between incompatible types"
                                   [] opres.operator = "Mul" -> "Product between incompatible types")

C21_Witness ==
    /\ opres # NoResult
    /\ opres.operator = "Mul"
    /\ opl = IntV(-3)
    /\ opr = FloatV(3, 2)
    /\ opres.tag = "Ok"
    /\ opres.val = FloatV(-9, 2)

\* C22: the right operand of && and || is evaluated even when the left one
\* decides the result: `false && e` and `true || e` fail when e fails, and
\* perform the calls that e contains, instead of giving false or true.
C22_LogicalOperatorsEvaluateBothOperands ==
    [][(Executed("VariableDeclarationStatement") /\ stmt'.value \in DecidedByLeft)
        => /\ stmt'.value.rhs.e = "Identifier" =>
                (status' = "failed" /\ scopes' = AfterFailure(scopes))
           /\ (/\ stmt'.value.rhs.e = "FunctionCall"
               /\ FunctionBound(scopes, current, "f")
               /\ Callee(scopes, current, "f") = Prints)
              => stdout' = Append(stdout, IntV(7))]_vars

C22_Witness ==
    /\ stmt = VariableDeclarationStatement("y",
                EBinaryOperation(EBool(FALSE), "And", EFunctionCall("f", <<>>)))
    /\ stdout = <<IntV(7)>>
    /\ status = "failed"

\* the names the control-flow programs use
FlowNames == {"x", "y", "t"}

\* the machine after the step
machine_after == [scopes |-> scopes', inp |-> stdin', out |-> stdout']

\* the step executed an if or if/else whose chosen branch is `let t = 9;
\* print(t);`, and the branch has completed: it has printed the t it declared
BranchCompleted ==
    /\ steps' = steps + 1
    /\ stmt'.k \in {"IfStatement", "IfElseStatement"}
    /\ stmt'.then_part = DeclareAndPrint
    /\ status' = "running"
    /\ stdout' = Append(stdout, IntV(9))

\* C23: a name declared inside the branch of an if or if/else is not bound
\* once the branch has completed: the statement binds no name in the
\* enclosing chain, a later lookup of the name in the enclosing block fails,
\* and the enclosing block or a later sibling branch can declare the name.
C23_BranchDeclarationsEndWithTheBranch ==
    [][/\ (steps' = steps + 1 /\ stmt'.k \in {"IfStatement", "IfElseStatement"})
            => /\ Len(scopes') = Len(scopes)
               /\ \A n \in FlowNames :
                    VariableBound(scopes', Len(scopes'), n) = VariableBound(scopes, current, n)
       /\ BranchCompleted
            => /\ ~VariableBound(scopes', Len(scopes'), "t")
               /\ ExecuteStatement(VariableDeclarationStatement("y", EIdentifier("t")),
                                   machine_after, Len(scopes')).tag = "Err"
               /\ ExecuteStatement(VariableDeclarationStatement("t", EInt(2)),
                                   machine_after, Len(scopes')).tag = "Ok"
               /\ ExecuteStatement(stmt', machine_after, Len(scopes')).tag = "Ok"]_vars

\* the branch has declared and printed t, and the enclosing block has then
\* declared t itself
C23_Witness ==
    /\ stmt = VariableDeclarationStatement("t", EInt(2))
    /\ status = "running"
    /\ stdout = <<IntV(9)>>
    /\ "t" \in DOMAIN scopes[1].local_variables
    /\ scopes[1].local_variables["t"] = IntV(2)

\* the characters tokenize has an arm for
Alphabet ==
    Letters \cup Capitals \cup OtherLetters
        \cup {Digits[i] : i \in 1..10} \cup {" ", "\n", "\t"}
        \cup {"(", ")", "[", "]", "{", "}", "+", "-", "*", "/", ";", ","}
        \cup {"=", "<", ">", "!", "|", "&"}

\* the positions of the source text that hold c
Places(c) == {i \in 1..Len(src) : src[i] = c}

\* ... and that start a maximal run of c
RunStarts(c) == {i \in Places(c) : i = 1 \/ src[i - 1] # c}

\* the length of the run of c that starts at position i
RunLength(c, i) ==
    (CHOOSE j \in i..(Len(src) + 1) :
        /\ \A k \in i..(j - 1) : src[k] = c
        /\ (j = Len(src) + 1 \/ src[j] # c)) - i

\* every | and every & stands in a pair: the runs of each have even length
Paired(c) == \A i \in RunStarts(c) : RunLength(c, i) % 2 = 0

\* the source text is made of characters of the alphabet, with | and & in pairs
Accepted == (\A i \in 1..Len(src) : src[i] \in Alphabet) /\ Paired("|") /\ Paired("&")

\* the number of tokens of a type in the token list
TokenCount(token_type) ==
    Cardinality({i \in 1..Len(tokens.tokens) : tokens.tokens[i].token_type = token_type})

\* the characters a token stands for
Spelling(token) ==
    CASE token.token_type = "TokEOF" -> ""
      [] token.token_type = "TokNeq" -> "!="
      [] OTHER -> token.value

RECURSIVE Spelled(_)
Spelled(list) == IF list = <<>> THEN "" ELSE Spelling(Head(list)) \o Spelled(Tail(list))

\* the source text without its blanks
RECURSIVE Unspaced(_)
Unspaced(chars) ==
    IF chars = <<>> THEN ""
    ELSE IF Head(chars) \in {" ", "\n", "\t"} THEN Unspaced(Tail(chars))
    ELSE Head(chars) \o Unspaced(Tail(chars))

\* the positions where c is followed by `=`, and where it is not
BeforeEquals(c) == {i \in Places(c) : i < Len(src) /\ src[i + 1] = "="}

\* C24: on a source text of accepted characters, tokenize returns the tokens
\* in source order, makes one token of each <=, >=, ==, || and && (never two
\* one-character tokens), and ends the list with the only EOF token.
C24_TokensInOrderThenEOF ==
    (tokens # NotRun /\ Accepted)
    => /\ tokens.tag = "Ok"
       /\ Len(tokens.tokens) >= 1
       /\ tokens.tokens[Len(tokens.tokens)] = Token("TokEOF", "EOF")
       /\ TokenCount("TokEOF") = 1
       /\ Spelled(tokens.tokens) = Unspaced(src)
       /\ TokenCount("TokLessEq") = Cardinality(BeforeEquals("<"))
       /\ TokenCount("TokLess") = Cardinality(Places("<") \ BeforeEquals("<"))
       /\ TokenCount("TokGreaterEq") = Cardinality(BeforeEquals(">"))
       /\ TokenCount("TokGreater") = Cardinality(Places(">") \ BeforeEquals(">"))
       /\ 2 * TokenCount("TokOr") = Cardinality(Places("|"))
       /\ 2 * TokenCount("TokAnd") = Cardinality(Places("&"))
       /\ TokenCount("TokEquals") <= Cardinality(RunStarts("="))
       /\ 2 * TokenCount("TokEq") + TokenCount("TokEquals") + TokenCount("TokLessEq")
            + TokenCount("TokGreaterEq") + TokenCount("TokNeq") = Cardinality(Places("="))

C24_Witness ==
    /\ src = <<"<", "=", "=", "=">>
    /\ tokens # NotRun
    /\ tokens.tag = "Ok"
    /\ tokens.tokens = <<Token("TokLessEq", "<="), Token("TokEq", "=="), Token("TokEOF", "EOF")>>

\* is made of statements `let <identifier> = ... ;` and the EOF token after
\* the last; <<"?">> when it is not
RECURSIVE LetNames(_, _, _)
LetNames(list, i, names) ==
    IF i = Len(list) /\ list[i].token_type = "TokEOF" THEN names
    ELSE IF /\ i + 3 <= Len(list)
            /\ list[i].token_type = "TokLet"
            /\ list[i + 1].token_type = "TokIdentifier"
            /\ list[i + 2].token_type = "TokEquals"
            /\ NextSemi(list, i + 3) # 0
            /\ \A j \in (i + 3)..NextSemi(list, i + 3) :
                    list[j].token_type \notin {"TokLet", "TokReturn", "TokEOF"}
    THEN LetNames(list, NextSemi(list, i + 3) + 1, Append(names, list[i + 1].value))
    ELSE <<"?">>

\* C30: on the token list of k >= 1 statements `let <identifier> = ... ;`
\* followed by EOF, parse does not panic and returns a program of k
\* statements, one for each let statement, in source order.
C30_ParseReturnsEveryLetStatement ==
    (program # NotRun /\ LetNames(tokens.tokens, 1, <<>>) \notin {<<>>, <<"?">>})
    => /\ program.tag = "Ok"
       /\ program.statements =
            [i \in 1..Len(LetNames(tokens.tokens, 1, <<>>)) |->
                LetStatement(LetNames(tokens.tokens, 1, <<>>)[i])]

\* C26: in every reachable state and for every live scope, no variable name
\* is bound locally in two scopes of the chain from that scope to its root,
\* so the scope that a lookup or an assignment of the name resolves to is
\* the only one of the chain that binds it.
C26_NameBoundOnceInChain ==
    \A sid \in 1..Len(scopes) :
        /\ \A c1, c2 \in Chain(scopes, sid) :
                c1 # c2 =>
                    DOMAIN scopes[c1].local_variables
                        \cap DOMAIN scopes[c2].local_variables = {}
        /\ \A n \in Names :
                VariableBound(scopes, sid, n) =>
                    {c \in Chain(scopes, sid) : n \in DOMAIN scopes[c].local_variables}
                        = {Owner(scopes, sid, n)}

\* a block is open; main_scope binds x and the block has just declared y
C26_Witness ==
    /\ current = 2
    /\ Owner(scopes, current, "x") = 1
    /\ Owner(scopes, current, "y") = 2
    /\ status = "running"
    /\ stmt.k = "VariableDeclarationStatement"
    /\ stmt.name = "y"

\* scope c is after the step what it was before, but for a binding of name n
SameBut(c, n) ==
    /\ scopes'[c].parent = scopes[c].parent
    /\ scopes'[c].local_functions = scopes[c].local_functions
    /\ scopes'[c].return_value = scopes[c].return_value
    /\ DOMAIN scopes'[c].local_variables \subseteq DOMAIN scopes[c].local_variables \cup {n}
    /\ \A v \in DOMAIN scopes[c].local_variables :
            /\ v \in DOMAIN scopes'[c].local_variables
            /\ scopes'[c].local_variables[v] = scopes[c].local_variables[v]

\* C27: the evaluation of a call leaves every variable binding, function
\* table and return slot of the caller's scope and of its ancestors as they
\* were, whatever the body declares, assigns, reads or returns: a print of a
\* call changes no scope, and a declaration whose value is a call changes
\* nothing but the binding it declares.
C27_CallLeavesCallerFrameUnchanged ==
    [][Called =>
            IF status' = "failed"
            THEN scopes' = AfterFailure(scopes)
            ELSE /\ Len(scopes') = Len(scopes)
                 /\ stmt'.k = "PrintStatement" => scopes' = scopes
                 /\ stmt'.k = "VariableDeclarationStatement" =>
                        /\ \A c \in 1..(current - 1) : scopes'[c] = scopes[c]
                        /\ SameBut(current, stmt'.name)]_vars

\* f() of fn f() { let v = 0; input v; return v; } has just read the line 3
\* and printed it; main_scope binds x to 1 as before, and its return slot is
\* the initial one
C27_Witness ==
    /\ stmt = PrintStatement(EFunctionCall("f", <<>>))
    /\ status = "running"
    /\ stdout = <<IntV(3)>>
    /\ stdin = <<>>
    /\ scopes[1].local_variables = [n \in {"x"} |-> IntV(1)]
    /\ scopes[1].return_value = IntV(0)

\* the run goes on and its chain resolves fact to the function d
Resolves(d) ==
    /\ status = "running"
    /\ FunctionBound(scopes, current, "fact")
    /\ Callee(scopes, current, "fact") = d

\* the Result of the call fact(k) in the current scope
FactOf(k) == evaluate_expression(machine, current, EFunctionCall("fact", <<EInt(k)>>))

\* C28: a call fact(n), n >= 0, of the function whose body is
\* `if (n <= 1) { return 1; }` followed by `return n * fact(n - 1);`
\* terminates: the return of the base case ends the call, no recursive call
\* is made for n <= 1, so the call needs no more nested calls than n (which
\* MaxCalls allows for every n up to MaxArgument), and it yields n!.
C28_GuardedRecursionTerminates ==
    Resolves(GuardedFactorial) =>
        \A k \in 0..MaxArgument :
            /\ FactOf(k).tag # "Beyond"
            /\ FactOf(k).tag = "Ok"
            /\ FactOf(k).val = IntV(Product(k))

\* what the body `print(x); x = x + 1;` prints while x < 2, starting at x = i
PrintedFrom(i) == [k \in 1..(IF i < 2 THEN 2 - i ELSE 0) |-> IntV(i + k - 1)]

\* the value of y is Boolean(false)
FalseY ==
    /\ VariableBound(scopes, current, "y")
    /\ ValueIn(scopes, current, EIdentifier("y")) = BooleanV(FALSE)

\* C29: a while statement evaluates its condition in the enclosing scope
\* before every iteration and runs its body once for each evaluation yielding
\* true; the next evaluation sees the body's assignments to enclosing
\* variables, and the loop finishes at the first evaluation yielding false,
\* with no body execution when the condition is false at the start.
C29_WhileRunsBodyOncePerTrueCondition ==
    [][(Executed("WhileStatement") /\ stmt'.body = NoDeclaration)
        => /\ stmt'.cond = XLessThan2 =>
                \A i \in 0..2 : CounterIs(i) =>
                    /\ status' = "running"
                    /\ stdout' = stdout \o PrintedFrom(i)
                    /\ scopes' = WithCounter(2)
           /\ (stmt'.cond = EIdentifier("y") /\ FalseY) =>
                /\ status' = "running"
                /\ stdout' = stdout
                /\ scopes' = scopes
      ]_vars

\* a loop over x < 2 that started at x = 0 has run its body twice and ended
C29_Witness ==
    /\ stmt = WhileStatement(XLessThan2, NoDeclaration)
    /\ status = "running"
    /\ stdout = <<IntV(0), IntV(1)>>
    /\ scopes[1].local_variables["x"] = IntV(2)

====
